---- MODULE Spec2Model ----
(***************************************************************************)
(* Verification model of jsoncons' arbitrary-precision integer             *)
(* (include/jsoncons/bignum.hpp, class basic_bignum).                      *)
(*                                                                         *)
(* A bignum is the record [neg_, data_]: neg_ is the sign flag and data_   *)
(* the digits 0 .. length_-1, least significant first, so that length_ is  *)
(* Len(data_).  Digits beyond length_ are never read before they are       *)
(* written, so they are not part of the value.                             *)
(*                                                                         *)
(* The digit type basic_type is uint32_t in the source.  Every mask and    *)
(* width of the class is derived from basic_type_bits; the model keeps     *)
(* those derivations and scales the digit to 2 * HalfBits bits, so that    *)
(* every product of two digits stays inside TLC's integers.  Arithmetic on *)
(* basic_type wraps modulo Base, as unsigned arithmetic does.              *)
(***************************************************************************)
EXTENDS Integers, Sequences, FiniteSets, TLC

\* ------------------------------------------------------------------------
\* Bounds of the model
\* ------------------------------------------------------------------------
\* Width of half a digit (basic_type_halfBits; 16 in the source).
HalfBits == 4
\* Longest result that operator= stores back into a register.
MaxLen == 3
\* Longest decimal string given to the string constructor.
MaxStrLen == 2
\* Number of results stored back into a register in one behaviour.
MaxSteps == 1
\* the threads that call to_string and the calls each of them makes
NThreads == 2
MaxCalls == 2
\* the calls of next() on one cursor
MaxPulls == 9

\* ------------------------------------------------------------------------
\* Widths and masks (bignum.hpp:34-41)
\* ------------------------------------------------------------------------
basic_type_halfBits == HalfBits
basic_type_bits == 2 * basic_type_halfBits
Base == 2 ^ basic_type_bits
HalfBase == 2 ^ basic_type_halfBits
max_basic_type == Base - 1
r_mask == HalfBase - 1
l_mask == max_basic_type - r_mask
l_bit == max_basic_type - (max_basic_type \div 2)
word_length == 2

Digit == 0 .. max_basic_type
Min(x, y) == IF x < y THEN x ELSE y
Max(x, y) == IF x > y THEN x ELSE y
\* unsigned wrap-around of a basic_type value
Wrap(v) == v % Base
\* C's conversion of a comparison to 0 / 1
B2I(c) == IF c THEN 1 ELSE 0

\* bitwise operators on basic_type values
RECURSIVE BitAnd(_, _)
BitAnd(x, y) ==
    IF x = 0 \/ y = 0 THEN 0
    ELSE (IF x % 2 = 1 /\ y % 2 = 1 THEN 1 ELSE 0) + 2 * BitAnd(x \div 2, y \div 2)
RECURSIVE BitOr(_, _)
BitOr(x, y) ==
    IF x = 0 THEN y
    ELSE IF y = 0 THEN x
    ELSE (IF x % 2 = 1 \/ y % 2 = 1 THEN 1 ELSE 0) + 2 * BitOr(x \div 2, y \div 2)
RECURSIVE BitXor(_, _)
BitXor(x, y) ==
    IF x = 0 THEN y
    ELSE IF y = 0 THEN x
    ELSE (IF (x % 2) # (y % 2) THEN 1 ELSE 0) + 2 * BitXor(x \div 2, y \div 2)
\* x << k and x >> k on a basic_type (0 <= k; the result wraps)
Shl(x, k) == Wrap(x * 2 ^ k)
Shr(x, k) == x \div 2 ^ k

\* ------------------------------------------------------------------------
\* Representation
\* ------------------------------------------------------------------------
length(x) == Len(x.data_)
\* data_[i], C index
D(x, i) == x.data_[i + 1]
Zeros(n) == [i \in 1 .. n |-> 0]
\* the integer a digit sequence stands for
RECURSIVE MagOf(_)
MagOf(s) == IF s = <<>> THEN 0 ELSE s[1] + Base * MagOf(Tail(s))
\* the mathematical value of a bignum
ValueOf(x) == IF x.neg_ THEN 0 - MagOf(x.data_) ELSE MagOf(x.data_)

\* basic_bignum(): zero
bignum_default == [neg_ |-> FALSE, data_ |-> <<>>]

\* reduce(): trim the zero digits at the top; a zero value is not negative
RECURSIVE Trim(_)
Trim(s) ==
    IF s = <<>> THEN s
    ELSE IF s[Len(s)] # 0 THEN s
    ELSE Trim(SubSeq(s, 1, Len(s) - 1))
reduce(x) ==
    LET d == Trim(x.data_)
    IN  [neg_ |-> IF Len(d) = 0 THEN FALSE ELSE x.neg_, data_ |-> d]

\* incr_length(len_new): grow to len_new digits, the new ones zeroed
incr_length(x, len_new) ==
    [neg_ |-> x.neg_,
     data_ |-> IF len_new > length(x)
               THEN x.data_ \o Zeros(len_new - length(x))
               ELSE SubSeq(x.data_, 1, len_new)]

\* initialize(uint32_t u): neg_ is not assigned here
initialize_u32(u, neg) ==
    [neg_ |-> neg, data_ |-> IF u # 0 THEN <<u>> ELSE <<>>]
\* initialize(uint64_t u): neg_ is not assigned here
initialize_u64(u, neg) ==
    [neg_ |-> neg,
     data_ |-> IF u # 0 THEN <<u % Base, (u \div Base) % Base>> ELSE <<>>]
\* initialize(const basic_bignum& n): reduce() only on the heap branch
initialize_big(n) == IF length(n) <= 2 THEN n ELSE reduce(n)

\* basic_bignum(int32_t i): neg_ = i < 0; u = neg_ ? -i : i
bignum_i32(i) == initialize_u32(Wrap(IF i < 0 THEN 0 - i ELSE i), i < 0)
\* basic_bignum(uint32_t u): neg_ keeps whatever the storage held (uninit)
bignum_u32(u, uninit) == initialize_u32(u, uninit)
\* basic_bignum(const int64_t& i)
bignum_i64(i) ==
    initialize_u64((IF i < 0 THEN 0 - i ELSE i) % (Base * Base), i < 0)
\* basic_bignum(const uint64_t& u): neg_ keeps whatever the storage held
bignum_u64(u, uninit) == initialize_u64(u, uninit)

\* operator-() const
Negate(x) == [neg_ |-> ~x.neg_, data_ |-> x.data_]

\* compare(y): -1 / 0 / +1 by sign, then length, then digits from the top
RECURSIVE compare_digits(_, _, _)
compare_digits(x, y, i) ==
    IF i < 0 THEN 0
    ELSE IF D(x, i) > D(y, i) THEN 1
    ELSE IF D(x, i) < D(y, i) THEN 0 - 1
    ELSE compare_digits(x, y, i - 1)
compare(x, y) ==
    IF x.neg_ # y.neg_ THEN B2I(y.neg_) - B2I(x.neg_)
    ELSE LET code ==
                 IF length(x) = 0 \/ length(y) = 0 THEN length(x) - length(y)
                 ELSE IF length(x) < length(y) THEN 0 - 1
                 ELSE IF length(x) > length(y) THEN 1
                 ELSE compare_digits(x, y, length(x) - 1)
         IN  IF x.neg_ THEN 0 - code ELSE code

\* ------------------------------------------------------------------------
\* Addition and subtraction (bignum.hpp:245-297)
\* ------------------------------------------------------------------------
\* the digit loop of operator+=, from index i with the running carry
RECURSIVE add_loop(_, _, _, _)
add_loop(d, yd, i, carry) ==
    IF i >= Len(d) THEN d
    ELSE IF i >= Len(yd) /\ carry = 0 THEN d
    ELSE LET t  == Wrap(d[i + 1] + carry)
             c1 == B2I(t < carry)
         IN  IF i < Len(yd)
             THEN LET s == Wrap(t + yd[i + 1])
                  IN  add_loop([d EXCEPT ![i + 1] = s], yd, i + 1,
                               IF s < t THEN 1 ELSE c1)
             ELSE add_loop([d EXCEPT ![i + 1] = t], yd, i + 1, c1)

\* the digit loop of operator-=, from index i with the running borrow
RECURSIVE sub_loop(_, _, _, _)
sub_loop(d, yd, i, borrow) ==
    IF i >= Len(d) THEN d
    ELSE IF i >= Len(yd) /\ borrow = 0 THEN d
    ELSE LET t  == Wrap(d[i + 1] + Base - borrow)
             b1 == B2I(t > d[i + 1])
         IN  IF i < Len(yd)
             THEN LET s == Wrap(t + Base - yd[i + 1])
                  IN  sub_loop([d EXCEPT ![i + 1] = s], yd, i + 1,
                               IF s > t THEN 1 ELSE b1)
             ELSE sub_loop([d EXCEPT ![i + 1] = t], yd, i + 1, b1)

RECURSIVE PlusEq(_, _)
RECURSIVE MinusEq(_, _)
\* operator+=(y)
PlusEq(x, y) ==
    IF x.neg_ # y.neg_ THEN MinusEq(x, Negate(y))
    ELSE LET g == incr_length(x, Max(length(y), length(x)) + 1)
         IN  reduce([neg_ |-> g.neg_, data_ |-> add_loop(g.data_, y.data_, 0, 0)])
\* operator-=(y)
MinusEq(x, y) ==
    IF x.neg_ # y.neg_ THEN PlusEq(x, Negate(y))
    ELSE IF (~x.neg_ /\ compare(y, x) > 0) \/ (x.neg_ /\ compare(y, x) < 0)
    THEN Negate(MinusEq(y, x))
    ELSE reduce([neg_ |-> x.neg_, data_ |-> sub_loop(x.data_, y.data_, 0, 0)])

\* ------------------------------------------------------------------------
\* Multiplication (bignum.hpp:299-391, 1026-1044)
\* ------------------------------------------------------------------------
\* DDproduct: Lo += mid << halfBits; Hi += (Lo < old) + (mid >> halfBits)
dd_add_mid(p, mid) ==
    LET Lo == Wrap(p.Lo + Shl(mid, basic_type_halfBits))
    IN  [Hi |-> Wrap(p.Hi + B2I(Lo < p.Lo) + Shr(mid, basic_type_halfBits)),
         Lo |-> Lo]
\* DDproduct: the four products of the half digits, then the two middle terms
dd_halves(hiA, loA, hiB, loB) ==
    dd_add_mid(dd_add_mid([Hi |-> Wrap(hiA * hiB), Lo |-> Wrap(loA * loB)],
                          Wrap(loA * hiB)),
               Wrap(hiA * loB))
\* DDproduct without the carries (Lo < old) of its two additions
DDproduct_NoCarry(A, B) ==
    LET hiA == Shr(A, basic_type_halfBits)
        loA == BitAnd(A, r_mask)
        hiB == Shr(B, basic_type_halfBits)
        loB == BitAnd(B, r_mask)
        mid1 == Wrap(loA * hiB)
        mid2 == Wrap(hiA * loB)
    IN  [Hi |-> Wrap(Wrap(hiA * hiB) + Shr(mid1, basic_type_halfBits)
                     + Shr(mid2, basic_type_halfBits)),
         Lo |-> Wrap(Wrap(loA * loB) + Shl(mid1, basic_type_halfBits)
                     + Shl(mid2, basic_type_halfBits))]
\* DDproduct(A, B, Hi, Lo): (Hi, Lo) = A * B
DDproduct(A, B) ==
    dd_halves(Shr(A, basic_type_halfBits), BitAnd(A, r_mask),
              Shr(B, basic_type_halfBits), BitAnd(B, r_mask))

\* the loop of operator*=(unsigned y) over the len0 digits, then data_[len0] = carry
RECURSIVE mul_digit_loop(_, _, _, _, _)
\* one iteration: p is DDproduct(data_[i], y)
mul_digit_step(d, y, i, len0, carry, p) ==
    LET lo == Wrap(p.Lo + carry)
    IN  mul_digit_loop([d EXCEPT ![i + 1] = lo], y, i + 1, len0,
                       Wrap(p.Hi + B2I(lo < p.Lo)))
mul_digit_loop(d, y, i, len0, carry) ==
    IF i >= len0 THEN [d EXCEPT ![i + 1] = carry]
    ELSE mul_digit_step(d, y, i, len0, carry, DDproduct(d[i + 1], y))
\* operator*=(unsigned y)
TimesEqUnsigned(x, y) ==
    reduce([neg_ |-> x.neg_,
            data_ |-> mul_digit_loop(incr_length(x, length(x) + 1).data_, y, 0,
                                     length(x), 0)])
\* operator*=(int y)
TimesEqInt(x, y) ==
    IF y < 0 THEN Negate(TimesEqUnsigned(x, Wrap(0 - y)))
    ELSE TimesEqUnsigned(x, Wrap(y))

\* column i of the schoolbook product: the inner loop over jA
RECURSIVE mul_column(_, _, _, _, _)
\* sumLo += Lo; if (sumLo < sumOld) sumHi++; sumHi += Hi; carry += (sumHi < sumOld)
mul_column_add(acc, p) ==
    LET sumLo == Wrap(acc.sumLo + p.Lo)
        sumHi == Wrap((IF sumLo < acc.sumLo THEN Wrap(acc.sumHi + 1) ELSE acc.sumHi)
                      + p.Hi)
    IN  [sumLo |-> sumLo, sumHi |-> sumHi,
         carry |-> Wrap(acc.carry + B2I(sumHi < acc.sumHi))]
mul_column(xd, yd, i, jA, acc) ==
    IF jA >= Len(xd) THEN acc
    ELSE IF i - jA >= 0 /\ i - jA < Len(yd)
    THEN mul_column(xd, yd, i, jA + 1,
                    mul_column_add(acc, DDproduct(xd[jA + 1], yd[i - jA + 1])))
    ELSE mul_column(xd, yd, i, jA + 1, acc)
\* the outer loop over the lenProd columns
RECURSIVE mul_columns(_, _, _, _, _, _)
\* data_[i] = sumLo; sumLo = sumHi; sumHi = carry
mul_columns_next(xd, yd, i, lenProd, acc) ==
    <<acc.sumLo>> \o mul_columns(xd, yd, i + 1, lenProd, acc.sumHi, acc.carry)
mul_columns(xd, yd, i, lenProd, sumHi, carry) ==
    IF i >= lenProd THEN <<>>
    ELSE mul_columns_next(xd, yd, i, lenProd,
                          mul_column(xd, yd, i, 0,
                                     [sumLo |-> sumHi, sumHi |-> carry, carry |-> 0]))

\* the single-word path: data_[0] * y.data_[0], two digits when it overflows
mul_single(A, B, p) ==
    IF Wrap(A * B) \div A # B THEN <<p.Lo, p.Hi>> ELSE <<Wrap(A * B)>>
\* the scale-by-one-digit paths and the schoolbook path
mul_long(x, y) ==
    IF length(x) = 1 THEN TimesEqUnsigned(y, D(x, 0))
    ELSE IF length(y) = 1 THEN TimesEqUnsigned(x, D(y, 0))
    ELSE reduce([neg_ |-> x.neg_,
                 data_ |-> mul_columns(x.data_, y.data_, 0,
                                       length(x) + length(y), 0, 0)])
\* operator*= with the sign of the product taken from the left operand alone
TimesEq_LeftSign(x, y) ==
    IF length(x) = 0 \/ length(y) = 0 THEN bignum_i32(0)
    ELSE IF length(x) + length(y) = 2
    THEN [neg_ |-> x.neg_,
          data_ |-> mul_single(D(x, 0), D(y, 0), DDproduct(D(x, 0), D(y, 0)))]
    ELSE [neg_ |-> x.neg_, data_ |-> mul_long(x, y).data_]
\* operator*=(basic_bignum y)
TimesEq(x, y) ==
    IF length(x) = 0 \/ length(y) = 0 THEN bignum_i32(0)
    ELSE IF length(x) + length(y) = 2
    THEN [neg_ |-> x.neg_ # y.neg_,
          data_ |-> mul_single(D(x, 0), D(y, 0), DDproduct(D(x, 0), D(y, 0)))]
    ELSE [neg_ |-> x.neg_ # y.neg_, data_ |-> mul_long(x, y).data_]

\* ------------------------------------------------------------------------
\* Shifts (bignum.hpp:407-464)
\* ------------------------------------------------------------------------
\* operator<<=: "Increase length_ by q", the digits moved up by q
shl_words(x, q) ==
    IF q # 0 THEN [neg_ |-> x.neg_, data_ |-> Zeros(q) \o x.data_] ELSE x
\* operator<<=: the loop shifting every digit of g by 0 < k < basic_type_bits
shl_bits_loop(g, k) ==
    [neg_ |-> g.neg_,
     data_ |-> [i \in 1 .. length(g) |->
                  IF i > 1
                  THEN BitOr(Shl(g.data_[i], k),
                             BitAnd(Shr(g.data_[i - 1], basic_type_bits - k),
                                    Wrap(2 ^ k - 1)))
                  ELSE Shl(g.data_[i], k)]]
shl_bits(x, k) ==
    IF k # 0 THEN shl_bits_loop(incr_length(x, length(x) + 1), k) ELSE x
\* operator<<=(k)
ShlEq(x, k) ==
    reduce(shl_bits(shl_words(x, k \div basic_type_bits),
                    IF k \div basic_type_bits # 0 THEN k % basic_type_bits ELSE k))

\* operator>>=: the loop shifting every digit of x by k
shr_bits_loop(x, k) ==
    [neg_ |-> x.neg_,
     data_ |-> [i \in 1 .. length(x) |->
                  IF i < length(x)
                  THEN BitOr(Shr(x.data_[i], k),
                             Shl(BitAnd(x.data_[i + 1], Wrap(2 ^ k - 1)),
                                 basic_type_bits - k))
                  ELSE Shr(x.data_[i], k)]]
\* operator>>=: after the memmove by q digits; k is already k % basic_type_bits
shr_moved(x, q, k) ==
    IF q # 0 /\ k = 0 THEN reduce(x) ELSE reduce(shr_bits_loop(x, k))
\* operator>>=(k): the branch q >= length() sets the length and returns
ShrEq(x, k) ==
    IF k \div basic_type_bits >= length(x) THEN [neg_ |-> x.neg_, data_ |-> <<>>]
    ELSE IF k \div basic_type_bits # 0
    THEN shr_moved([neg_ |-> x.neg_,
                    data_ |-> SubSeq(x.data_, k \div basic_type_bits + 1, length(x))],
                   k \div basic_type_bits, k % basic_type_bits)
    ELSE shr_moved(x, 0, k)

\* ------------------------------------------------------------------------
\* Bitwise operators (bignum.hpp:492-557)
\* ------------------------------------------------------------------------
\* operator|= that does not grow the left operand to the length of a
OrEq_NoGrowth(x, a) ==
    reduce([neg_ |-> x.neg_,
            data_ |-> [i \in 1 .. length(x) |->
                         IF i <= length(a) THEN BitOr(x.data_[i], a.data_[i])
                         ELSE x.data_[i]]])
\* operator|=(a)
OrEq(x, a) ==
    LET g == IF length(x) < length(a) THEN incr_length(x, length(a)) ELSE x
    IN  reduce([neg_ |-> g.neg_,
                data_ |-> [i \in 1 .. length(g) |->
                             IF i <= length(a) THEN BitOr(g.data_[i], a.data_[i])
                             ELSE g.data_[i]]])
\* operator^=(a)
XorEq(x, a) ==
    LET g == IF length(x) < length(a) THEN incr_length(x, length(a)) ELSE x
    IN  reduce([neg_ |-> g.neg_,
                data_ |-> [i \in 1 .. length(g) |->
                             IF i <= length(a) THEN BitXor(g.data_[i], a.data_[i])
                             ELSE g.data_[i]]])
\* operator&=(a)
AndEq(x, a) ==
    LET n == Min(length(x), length(a))
    IN  reduce([neg_ |-> x.neg_,
                data_ |-> [i \in 1 .. n |-> BitAnd(x.data_[i], a.data_[i])]])

\* ------------------------------------------------------------------------
\* Division (bignum.hpp:393-405, 1046-1236)
\* ------------------------------------------------------------------------
\* a - b on basic_type values, wrapping
WrapSub(a, b) == Wrap(a + 4 * Base - b)

\* DDquotient: "Increase qHi if necessary"
RECURSIVE ddq_raise_hi(_, _, _, _, _)
ddq_raise_hi(A, B, qHi, dHi, dLo1) ==
    IF A > dHi \/ (A = dHi /\ B >= dLo1)
    THEN LET x == WrapSub(B, dLo1)
         IN  ddq_raise_hi(WrapSub(A, dHi + B2I(x > B)), x, Wrap(qHi + 1), dHi, dLo1)
    ELSE [A |-> A, B |-> B, q |-> qHi]
\* DDquotient: "Increase qLo if necessary"
RECURSIVE ddq_raise_lo(_, _, _, _)
ddq_raise_lo(A, B, qLo, d) ==
    IF A # 0 \/ B >= d
    THEN LET x == WrapSub(B, d)
         IN  ddq_raise_lo(WrapSub(A, B2I(x > B)), x, Wrap(qLo + 1), d)
    ELSE qLo
\* DDquotient, after the guess of qLo: x = B - (middle << halfBits);
\* A -= (middle >> halfBits) + (x > B); B = x; then qLo is raised
ddq_lo_mid(qHi, d, qLo, A, B, middle) ==
    LET x == WrapSub(B, Shl(middle, basic_type_halfBits))
    IN  Wrap(Shl(qHi, basic_type_halfBits)
             + ddq_raise_lo(WrapSub(A, Shr(middle, basic_type_halfBits) + B2I(x > B)),
                            x, qLo, d))
\* DDquotient: right = qLo * dLo; middle = qLo * dHi; x = B - right;
\* A -= (x > B); B = x
ddq_lo_sub(h, d, dHi, dLo, qLo) ==
    LET x == WrapSub(h.B, Wrap(qLo * dLo))
    IN  ddq_lo_mid(h.q, d, qLo, WrapSub(h.A, B2I(x > h.B)), x, Wrap(qLo * dHi))
\* DDquotient: qLo = ((A << halfBits) | (B >> halfBits)) / (dHi + 1)
ddq_lo(h, d, dHi, dLo) ==
    ddq_lo_sub(h, d, dHi, dLo,
               BitOr(Shl(h.A, basic_type_halfBits), Shr(h.B, basic_type_halfBits))
                   \div (dHi + 1))
\* DDquotient: middle = qHi * dLo; left = qHi * dHi;
\* x = B - (middle << halfBits); A -= (middle >> halfBits) + left + (x > B);
\* B = x; dLo1 = dLo << halfBits; then qHi is raised
ddq_hi_sub(A, B, d, dHi, dLo, qHi) ==
    LET x == WrapSub(B, Shl(Wrap(qHi * dLo), basic_type_halfBits))
    IN  ddq_lo(ddq_raise_hi(WrapSub(A, Shr(Wrap(qHi * dLo), basic_type_halfBits)
                                       + Wrap(qHi * dHi) + B2I(x > B)),
                            x, qHi, dHi, Shl(dLo, basic_type_halfBits)),
               d, dHi, dLo)
\* DDquotient: qHi = A / (dHi + 1)
ddq_hi(A, B, d, dHi, dLo) == ddq_hi_sub(A, B, d, dHi, dLo, A \div (dHi + 1))
\* DDquotient(A, B, d): divide the double word (A, B) by d
DDquotient(A, B, d) ==
    ddq_hi(A, B, d, Shr(d, basic_type_halfBits), BitAnd(d, r_mask))

\* subtractmul, first loop: a -= q * b over b's n digits, a starting at off
RECURSIVE sm_subtract(_, _, _, _, _, _, _)
\* one iteration: p is DDproduct(b[i], q)
sm_subtract_step(a, off, b, n, q, i, carry, p) ==
    LET a0 == WrapSub(a[off + i + 1], p.Lo)
        a1 == WrapSub(a[off + i + 2],
                      Wrap(p.Hi + (IF a0 > a[off + i + 1] THEN Wrap(carry + 1)
                                   ELSE carry)))
    IN  sm_subtract([a EXCEPT ![off + i + 1] = a0, ![off + i + 2] = a1],
                    off, b, n, q, i + 1, B2I(a1 > a[off + i + 2]))
sm_subtract(a, off, b, n, q, i, carry) ==
    IF i >= n THEN [a |-> a, carry |-> carry]
    ELSE sm_subtract_step(a, off, b, n, q, i, carry, DDproduct(b[i + 1], q))
\* subtractmul, second loop: q was too large, add b back
RECURSIVE sm_addback(_, _, _, _, _, _)
sm_addback(a, off, b, n, i, carry) ==
    IF i >= n THEN [a EXCEPT ![off + n + 1] = 0]
    ELSE LET d == Wrap(a[off + i + 1] + carry)
             s == Wrap(d + b[i + 1])
         IN  sm_addback([a EXCEPT ![off + i + 1] = s], off, b, n, i + 1,
                        IF s < d THEN 1 ELSE B2I(d < carry))
\* subtractmul: if ( carry ) q--, add back; s is the outcome of the first loop
sm_correct(s, off, b, n, q) ==
    IF s.carry # 0
    THEN [a |-> sm_addback(s.a, off, b, n, 0, 0), q |-> WrapSub(q, 1)]
    ELSE [a |-> s.a, q |-> q]
\* subtractmul(a, b, n, q): the digits of a and the corrected q
subtractmul(a, off, b, n, q) ==
    sm_correct(sm_subtract(a, off, b, n, q, 0, 0), off, b, n, q)

\* normalize: the number of left shifts that set the top bit of y
RECURSIVE norm_shift(_, _)
norm_shift(y, x) ==
    IF BitAnd(y, l_bit) = 0 THEN norm_shift(Shl(y, 1), x + 1) ELSE x
\* normalize, after denom <<= x and num <<= x: the second normalisation
norm_second(denom, num, x, r) ==
    IF r > 0 /\ D(denom, r) < D(denom, r - 1)
    THEN [st |-> "ok", denom |-> TimesEqUnsigned(denom, max_basic_type),
          num |-> TimesEqUnsigned(num, max_basic_type), x |-> x, second |-> 1]
    ELSE [st |-> "ok", denom |-> denom, num |-> num, x |-> x, second |-> 0]
\* normalize: denom <<= x; num <<= x
norm_by(denom, num, x) ==
    norm_second(ShlEq(denom, x), ShlEq(num, x), x, length(denom) - 1)
\* normalize(denom, num, x): with a zero top digit the while loop never ends
normalize(denom, num) ==
    IF D(denom, length(denom) - 1) = 0
    THEN [st |-> "hang", denom |-> denom, num |-> num, x |-> 0, second |-> 0]
    ELSE norm_by(denom, num, norm_shift(D(denom, length(denom) - 1), 0))

\* the half-digit path of divide: quotient digits from the top, dHi the remainder
RECURSIVE div_half_loop(_, _, _, _, _)
\* the second half of an iteration: dividend = (r << halfBits) | (data_[i] & r_mask)
div_half_low(d, divisor, i, qd, q1, dividend) ==
    div_half_loop(d, divisor, i - 1, dividend % divisor,
                  [qd EXCEPT ![i + 1] =
                       BitOr(Shl(q1, basic_type_halfBits), dividend \div divisor)])
\* the first half: dividend = (dHi << halfBits) | (data_[i] >> halfBits)
div_half_high(d, divisor, i, qd, dividend) ==
    div_half_low(d, divisor, i, qd, dividend \div divisor,
                 BitOr(Shl(dividend % divisor, basic_type_halfBits),
                       BitAnd(d[i + 1], r_mask)))
div_half_loop(d, divisor, i, dHi, qd) ==
    IF i < 0 THEN [quot |-> qd, dHi |-> dHi]
    ELSE div_half_high(d, divisor, i, qd,
                       BitOr(Shl(dHi, basic_type_halfBits),
                             Shr(d[i + 1], basic_type_halfBits)))

\* the long-division loop of divide: for k = n down to r + 1
RECURSIVE div_long_loop(_, _, _, _, _)
\* quot.data_[k - r - 1] = q; s is the outcome of subtractmul
div_long_step(denomd, k, r, qd, s) ==
    div_long_loop(s.a, denomd, k - 1, r, [qd EXCEPT ![k - r] = s.q])
div_long_loop(remd, denomd, k, r, qd) ==
    IF k <= r THEN [rem |-> remd, quot |-> qd]
    ELSE div_long_step(denomd, k, r, qd,
                       subtractmul(remd, k - r - 1, denomd, r + 1,
                                   DDquotient(remd[k + 1], remd[k], denomd[r + 1])))

\* *this with neg_ = false (num.neg_ = denom.neg_ = false)
Magnitude(x) == [neg_ |-> FALSE, data_ |-> x.data_]

RECURSIVE divide(_, _, _, _, _, _)
\* unnormalize: if ( x > 0 ) rem >>= x; else rem.reduce(); d is the outcome
\* of rem /= max_basic_type
unnormalize_shift(d, rem, x) ==
    IF d.st # "ok" THEN [st |-> d.st, rem |-> rem]
    ELSE [st |-> "ok", rem |-> IF x > 0 THEN ShrEq(d.quot, x) ELSE reduce(d.quot)]
\* unnormalize(rem, x, secondDone); rem /= max_basic_type builds its divisor
\* with basic_bignum(uint32_t)
unnormalize(rem, x, secondDone, uninit) ==
    IF secondDone # 0
    THEN unnormalize_shift(divide(rem, bignum_u32(max_basic_type, uninit), rem,
                                  bignum_default, FALSE, uninit), rem, x)
    ELSE unnormalize_shift([st |-> "ok", quot |-> rem, rem |-> rem], rem, x)

\* divide, the end: rem.neg_ = RemNeg; u is the outcome of unnormalize
divide_rem(self, q, rem, u) ==
    IF u.st # "ok" THEN [st |-> u.st, quot |-> q, rem |-> rem]
    ELSE [st |-> "ok", quot |-> q, rem |-> [neg_ |-> self.neg_, data_ |-> u.rem.data_]]
\* divide: quot.reduce(); quot.neg_ = QuotNeg; if ( remDesired ) unnormalize.
\* l is the outcome of the long-division loop
divide_quot(self, denom0, rem, remDesired, uninit, nz, l) ==
    IF remDesired
    THEN divide_rem(self,
                    [neg_ |-> self.neg_ # denom0.neg_, data_ |-> Trim(l.quot)],
                    rem,
                    unnormalize([neg_ |-> FALSE, data_ |-> l.rem], nz.x, nz.second,
                                uninit))
    ELSE [st |-> "ok",
          quot |-> [neg_ |-> self.neg_ # denom0.neg_, data_ |-> Trim(l.quot)],
          rem |-> [neg_ |-> FALSE, data_ |-> l.rem]]
\* divide: rem = num, grown by a digit when rem.data_[n] >= denom.data_[r]
divide_loop(self, denom0, rem, remDesired, uninit, nz, n, r) ==
    IF D(nz.num, n) >= D(nz.denom, r)
    THEN divide_quot(self, denom0, rem, remDesired, uninit, nz,
                     div_long_loop(nz.num.data_ \o <<0>>, nz.denom.data_, n + 1, r,
                                   Zeros(n + 1 - r)))
    ELSE divide_quot(self, denom0, rem, remDesired, uninit, nz,
                     div_long_loop(nz.num.data_, nz.denom.data_, n, r, Zeros(n - r)))
\* divide, the long path: nz is the outcome of normalize.  quot.set_length(n - r)
\* with n < r wraps the length to 2^16 - 1 while round_up gives a zero-length
\* block, and the zeroing loop writes past it
divide_long(self, denom0, quot, rem, remDesired, uninit, nz) ==
    IF nz.st # "ok" THEN [st |-> nz.st, quot |-> quot, rem |-> rem]
    ELSE IF length(nz.num) - length(nz.denom) < 0
    THEN [st |-> "undefined", quot |-> quot, rem |-> rem]
    ELSE divide_loop(self, denom0, rem, remDesired, uninit, nz,
                     length(nz.num) - 1, length(nz.denom) - 1)
\* divide, "Denominator fits into a half word": h is the outcome of the loop
divide_half(self, denom0, uninit, h) ==
    [st |-> "ok",
     quot |-> [neg_ |-> self.neg_ # denom0.neg_, data_ |-> Trim(h.quot)],
     rem |-> [neg_ |-> self.neg_, data_ |-> bignum_u32(h.dHi, uninit).data_]]
\* divide(denom, quot, rem, remDesired) const, on *this = self.  The result
\* is the outcome st and the two output operands:
\*   "ok"          the call returned
\*   "zero_divide" std::runtime_error("Zero divide.") was thrown
\*   "hang"        normalize never terminates
\*   "undefined"   quot.set_length(n - r) was called with n < r
divide(self, denom0, quot, rem, remDesired, uninit) ==
    IF length(denom0) = 0
    THEN [st |-> "zero_divide", quot |-> quot, rem |-> rem]
    ELSE IF compare(Magnitude(self), Magnitude(denom0)) < 0
    THEN [st |-> "ok", quot |-> bignum_i32(0),
          rem |-> [neg_ |-> self.neg_, data_ |-> self.data_]]
    ELSE IF length(denom0) = 1 /\ length(self) = 1
    THEN [st |-> "ok",
          quot |-> [neg_ |-> self.neg_ # denom0.neg_,
                    data_ |-> bignum_u32(D(self, 0) \div D(denom0, 0), uninit).data_],
          rem |-> [neg_ |-> self.neg_,
                   data_ |-> bignum_u32(D(self, 0) % D(denom0, 0), uninit).data_]]
    ELSE IF length(denom0) = 1 /\ BitAnd(D(denom0, 0), l_mask) = 0
    THEN divide_half(self, denom0, uninit,
                     div_half_loop(self.data_, D(denom0, 0), length(self) - 1, 0,
                                   Zeros(length(self))))
    ELSE divide_long(self, denom0, quot, rem, remDesired, uninit,
                     normalize(Magnitude(denom0), Magnitude(self)))

\* the value operator/= leaves in *this
quot_of(d) == [st |-> d.st, val |-> d.quot]
\* the value operator%= leaves in *this
rem_of(d) == [st |-> d.st, val |-> d.rem]
\* operator/= that clears its output operand before the divisor is examined
DivEq_ClearsFirst(x, divisor, uninit) ==
    quot_of(divide(x, divisor, bignum_default, bignum_default, FALSE, uninit))
\* operator/=(divisor): basic_bignum r; divide(divisor, *this, r, false)
DivEq(x, divisor, uninit) ==
    quot_of(divide(x, divisor, x, bignum_default, FALSE, uninit))
\* operator%=(divisor): basic_bignum q; divide(divisor, q, *this, true)
ModEq(x, divisor, uninit) ==
    rem_of(divide(x, divisor, bignum_default, x, TRUE, uninit))

\* ------------------------------------------------------------------------
\* Decimal strings (bignum.hpp:61-106, 669-724)
\* ------------------------------------------------------------------------
\* A C string is the sequence of its characters before the terminator.
DigitChars == <<"0", "1", "2", "3", "4", "5", "6", "7", "8", "9">>
\* (int)(c - '0')
CharMinusZero(c) ==
    IF \E v \in 1 .. 10 : DigitChars[v] = c
    THEN (CHOOSE v \in 1 .. 10 : DigitChars[v] = c) - 1
    ELSE IF c = "-" THEN 0 - 3
    ELSE 0 - 16
\* char(r % 10 + '0')
DigitChar(v) == DigitChars[v + 1]
isspace(c) == c = " "

\* v = (v * m) + digit, over the characters from position i
RECURSIVE accumulate(_, _, _, _)
\* the loop assigns v at every iteration: nv is computed before the next
\* character is read
accumulate_next(nv, m, vals, i) ==
    IF length(nv) >= 0 THEN accumulate(nv, m, vals, i + 1) ELSE nv
accumulate(v, m, vals, i) ==
    IF i > Len(vals) THEN v
    ELSE accumulate_next(PlusEq(TimesEqInt(v, m), bignum_i32(vals[i])), m, vals, i)
RECURSIVE skip_space(_, _)
skip_space(str, i) ==
    IF i <= Len(str) /\ isspace(str[i]) THEN skip_space(str, i + 1) ELSE i

\* if ( neg ) v.neg_ = true; initialize( v )
with_sign(neg, v) ==
    initialize_big([neg_ |-> IF neg THEN TRUE ELSE v.neg_, data_ |-> v.data_])
\* basic_bignum(const char* str), the digits from position i1
str_digits(str, neg, i1) ==
    with_sign(neg,
              accumulate(bignum_i32(0), 10,
                         [j \in 1 .. Len(str) - i1 + 1 |->
                              CharMinusZero(str[i1 + j - 1])], 1))
\* basic_bignum(const char* str), after the white space: the sign
str_signed(str, i0) ==
    IF i0 <= Len(str) /\ str[i0] = "-" THEN str_digits(str, TRUE, i0 + 1)
    ELSE str_digits(str, FALSE, i0)
\* basic_bignum(const char* str)
bignum_str(str) == str_signed(str, skip_space(str, 1))

\* basic_bignum(int signum, const uint8_t* str, size_t n)
bignum_bytes(signum, bytes) ==
    with_sign(signum = 0 - 1, accumulate(bignum_i32(0), 16, bytes, 1))

\* to_string: the initialisation loop of the cached pair (p10, ip10),
\* p10 the largest power of 10 that fits an unsigned
RECURSIVE p10_loop(_, _)
p10_loop(p10, ip10) ==
    IF p10 <= max_basic_type \div 10 THEN p10_loop(p10 * 10, ip10 + 1)
    ELSE [p10 |-> p10, ip10 |-> ip10]
P10 == p10_loop(1, 0)

\* the inner loop without the test on v.length(): it stops at r = 0 in every
\* chunk, not only in the last one
RECURSIVE ts_digits_StopsAtZero(_, _, _, _, _, _)
ts_digits_StopsAtZero(data, n, r, j, ip10, vlen) ==
    IF j >= ip10 THEN [data |-> data, n |-> n]
    ELSE IF r \div 10 = 0
    THEN [data |-> [data EXCEPT ![n] = DigitChar(r % 10)], n |-> n - 1]
    ELSE ts_digits_StopsAtZero([data EXCEPT ![n] = DigitChar(r % 10)], n - 1,
                               r \div 10, j + 1, ip10, vlen)
\* to_string: the inner for loop writing the decimal digits of r at data[--n]
RECURSIVE ts_digits(_, _, _, _, _, _)
ts_digits(data, n, r, j, ip10, vlen) ==
    IF j >= ip10 THEN [data |-> data, n |-> n]
    ELSE IF r \div 10 + vlen = 0
    THEN [data |-> [data EXCEPT ![n] = DigitChar(r % 10)], n |-> n - 1]
    ELSE ts_digits([data EXCEPT ![n] = DigitChar(r % 10)], n - 1, r \div 10,
                   j + 1, ip10, vlen)
\* to_string: the do-while loop dividing v by LP10
RECURSIVE ts_chunks(_, _, _, _, _)
\* while ( v.length() ); w is the outcome of the inner loop
ts_chunks_next(q, LP10, w, uninit) ==
    IF length(q) # 0 THEN ts_chunks(q, LP10, w.data, w.n, uninit)
    ELSE [st |-> "ok", data |-> w.data, n |-> w.n]
\* r = (R.length() ? R.data_[0] : 0); d is the outcome of v.divide(LP10, v, R, true)
ts_chunks_rem(d, LP10, data, n, uninit) ==
    IF d.st # "ok" THEN [st |-> d.st, data |-> data, n |-> n]
    ELSE ts_chunks_next(d.quot, LP10,
                        ts_digits(data, n,
                                  IF length(d.rem) # 0 THEN D(d.rem, 0) ELSE 0,
                                  0, P10.ip10, length(d.quot)),
                        uninit)
ts_chunks(v, LP10, data, n, uninit) ==
    ts_chunks_rem(divide(v, LP10, v, bignum_default, TRUE, uninit), LP10, data, n,
                  uninit)
\* to_string: while ( n < len ) data[i++] = data[n++], after the sign; c is
\* the outcome of the do-while loop.  data is indexed 1 .. len here and n
\* counts the free cells at the front
ts_move(sign, len, c) ==
    IF c.st # "ok" THEN [st |-> c.st, str |-> <<>>]
    ELSE IF c.n < Len(sign) THEN [st |-> "undefined", str |-> <<>>]
    ELSE [st |-> "ok", str |-> sign \o SubSeq(c.data, c.n + 1, len)]
\* to_string, v.length() # 0: len cells, LP10 = p10 built with
\* basic_bignum(uint32_t)
ts_nonzero(x, len, uninit) ==
    ts_move(IF x.neg_ THEN <<"-">> ELSE <<>>, len,
            ts_chunks(x, bignum_u32(P10.p10, uninit), [i \in 1 .. len |-> "\\0"],
                      len, uninit))
\* to_string() const
to_string(x, uninit) ==
    IF length(x) = 0 THEN [st |-> "ok", str |-> <<"0">>]
    ELSE ts_nonzero(x, (length(x) * basic_type_bits) \div 3 + 2, uninit)

\* basic_bignum(double x): negx is x < 0 and n the integer part of |x|.
\* Dividing a double by values = 2^basic_type_bits is exact, so the loop
\* sees the integer part of x / values^i at iteration i.
RECURSIVE double_loop(_, _, _, _)
\* x /= values; factor = factor * (bignum(max_basic_type) + bignum(1))
double_next(nv, factor, n, uninit) ==
    IF length(nv) >= 0
    THEN double_loop(nv,
                     TimesEq(factor, PlusEq(bignum_u32(max_basic_type, uninit),
                                            bignum_i32(1))),
                     n \div Base, uninit)
    ELSE nv
\* u = (basic_type) fmod( x, values ); v = v + factor * bignum(u)
double_loop(v, factor, n, uninit) ==
    IF n < 1 THEN v
    ELSE double_next(PlusEq(v, TimesEq(factor, bignum_u32(n % Base, uninit))),
                     factor, n, uninit)
bignum_double(negx, n, uninit) ==
    with_sign(negx, double_loop(bignum_i32(0), bignum_i32(1), n, uninit))

\* ------------------------------------------------------------------------
\* Integer square root (bignum.hpp:966-984)
\* ------------------------------------------------------------------------
\* sqrt: while ( b >>= 2, b > 0 ) x >>= 1;  b2 is b after b >>= 2.  The loop
\* never ends once b >>= 2 leaves b unchanged and b > 0 still holds.
RECURSIVE sqrt_seed(_, _)
sqrt_seed_next(x, b, b2) ==
    IF compare(b2, bignum_i32(0)) > 0
    THEN IF b2 = b THEN [st |-> "hang", val |-> x]
         ELSE sqrt_seed(ShrEq(x, 1), b2)
    ELSE [st |-> "ok", val |-> x]
sqrt_seed(x, b) == sqrt_seed_next(x, b, ShrEq(b, 2))
\* sqrt: while ( x > (q = a/x) + 1 || x < q - 1 ) { x += q; x >>= 1; }
\*       return x < q ? x : q;
\* seen holds the values x had at the loop test: the loop never ends once
\* one comes back.  d is a / x.
RECURSIVE sqrt_newton(_, _, _, _)
sqrt_test(a, x, seen, uninit, d) ==
    IF d.st # "ok" THEN [st |-> d.st, val |-> x]
    ELSE IF \/ compare(x, PlusEq(d.val, bignum_i32(1))) > 0
            \/ compare(x, MinusEq(d.val, bignum_i32(1))) < 0
    THEN sqrt_newton(a, ShrEq(PlusEq(x, d.val), 1), seen \cup {x}, uninit)
    ELSE [st |-> "ok", val |-> IF compare(x, d.val) < 0 THEN x ELSE d.val]
sqrt_newton(a, x, seen, uninit) ==
    IF x \in seen THEN [st |-> "hang", val |-> x]
    ELSE sqrt_test(a, x, seen, uninit, DivEq(a, x, uninit))
sqrt_from(a, seed, uninit) ==
    IF seed.st # "ok" THEN seed ELSE sqrt_newton(a, seed.val, {}, uninit)
\* sqrt(a): x = a; b = a; b <<= 1; the seed loop; the Newton loop
sqrt(a, uninit) == sqrt_from(a, sqrt_seed(a, ShlEq(a, 1)), uninit)

\* ------------------------------------------------------------------------
\* Inputs of the constructors and operators
\* ------------------------------------------------------------------------
I32In == {0 - 6, 0 - 1, 3}
U32In == {5, max_basic_type}
I64In == {0 - (Base + 1), 5, Base + 1, 2 * Base + 3}
U64In == {0, 100, max_basic_type * Base + 1}
StrChars == {" ", "-", "0", "6"}
StrIn == UNION {[1 .. n -> StrChars] : n \in 0 .. MaxStrLen}
BytesIn == {<<>>, <<1>>, <<1, 255>>}
SignumIn == {0 - 1, 0, 1}
DoubleIn == {0, Base}
IntIn == {0 - 1, 10}
ShiftIn == {1, basic_type_bits, 2 * basic_type_bits + 1}
Regs == {"a", "b"}

\* ------------------------------------------------------------------------
\* State: the two bignum objects reg.a and reg.b of the client, the outcome
\* out of the last expression evaluated on them, and the number of results
\* assigned back to reg.a
\* ------------------------------------------------------------------------
VARIABLES reg, out, steps
\* to_string's function-local statics p10 and ip10, shared by every thread of
\* the process, and the to_string call each thread is in
VARIABLES shared, thread
bignum_vars == <<reg, out, steps>>
race_vars == <<shared, thread>>
\* the cursor visitor (basic_staj2_visitor), the decoder that pushes into it,
\* the events the caller of the cursor has been shown after each next(), for
\* each of them the place in the decoder's calls of the call it comes from,
\* and the event the caller last read with current()
VARIABLES visitor, decoder, surfaced, origin, observed
\* the calls the sink of the last dump received, and the visitor that dump
\* was called on
VARIABLES sink, dumped
sink_vars == <<sink, dumped>>
\* a cursor seen through the filter views (cursor | p) | q, a second cursor
\* over the same events seen through one filter view, and the predicates p
\* and q
VARIABLES composed, single, preds
filter_vars == <<composed, single, preds>>
\* an event in the hands of its reader, and the last conversion asked of it
VARIABLES event, converted, raised
event_vars == <<event, converted, raised>>
\* two digits in the hands of the multiplication, and the last product made
\* of them
VARIABLES operands, product
digit_vars == <<operands, product>>
\* a json_decoder, and the calls its caller has made since the last
\* do_begin_document
VARIABLES json, doc
json_vars == <<json, doc>>
cursor_vars ==
    <<visitor, decoder, surfaced, origin, observed, sink_vars, filter_vars,
      event_vars, digit_vars, json_vars>>
vars == <<bignum_vars, race_vars, cursor_vars>>

\* the outcome of an expression: its name, how the call ended, and the
\* bignums, the string and the integer it produced
Outcome(name, status, v, v2, s, c) ==
    [op |-> name, st |-> status, res |-> v, res2 |-> v2, txt |-> s, cmp |-> c]
Value(name, v) == Outcome(name, "ok", v, bignum_default, <<>>, 0)
NoOutcome == Value("none", bignum_default)
\* no expression is pending
Idle == out.op = "none"

\* the client's objects after construction
BignumInit ==
    /\ reg = [a |-> bignum_default, b |-> bignum_default]
    /\ out = NoOutcome
    /\ steps = 0

\* static unsigned p10 = 1; static unsigned ip10 = 0;
StaticsInit == [p10 |-> 1, ip10 |-> 0]
Threads == 1 .. NThreads
\* a thread that is in no call of to_string: x is the operand, v, LP10, data
\* and n the locals of the call, g the uninitialised sign LP10 gets, res the
\* string returned and calls the number of calls made
NoCall ==
    [pc |-> "idle", x |-> bignum_default, v |-> bignum_default,
     LP10 |-> bignum_default, g |-> FALSE, data |-> <<>>, n |-> 0,
     res |-> [st |-> "ok", str |-> <<>>], calls |-> 0]
RaceInit ==
    /\ shared = StaticsInit
    /\ thread = [t \in Threads |-> NoCall]

\* a staj2 event: its type, its value (the length of a begin event, NoLength
\* when none was given), the characters or bytes its view spans, its tag and
\* its ext_tag.  A bool value is 1 or 0, a half value the 16 bits of the half
\* float, and a double value d is held as the integer 2 * d, so that the
\* doubles of the model are the multiples of one half.  A byte is written as
\* a character.
Ev(type, val, tag) ==
    [type |-> type, val |-> val, str |-> <<>>, tag |-> tag, ext |-> 0]
\* basic_staj2_event(s, event_type, tag): value_ points to s.data(),
\* length_(s.length())
EvView(type, s, tag) ==
    [type |-> type, val |-> 0, str |-> s, tag |-> tag, ext |-> 0]
\* basic_staj2_event(s, event_type, ext_tag): tag_(semantic_tag::ext),
\* ext_tag_(ext_tag)
EvExt(type, s, ext_tag) ==
    [type |-> type, val |-> 0, str |-> s, tag |-> "ext", ext |-> ext_tag]
NoLength == 0 - 1
\* typed_array_view(): no element type, no elements
NoView == [type |-> "none", elems |-> <<>>]
\* basic_staj2_visitor(pred): event_(null_value), state_(), data_(), shape_(),
\* index_(0)
Constructed(pred) ==
    [pred_ |-> pred, event_ |-> Ev("null_value", 0, "none"), state_ |-> "none",
     data_ |-> NoView, shape_ |-> <<>>, index_ |-> 0]
\* no dump was called yet: dumped holds the visitor dump was called on and
\* the patience of the sink it was given
NotDumped == [v |-> Constructed("accept"), patience |-> 0]
\* a cursor over no input
CursorInit ==
    /\ visitor = Constructed("accept")
    /\ decoder = [calls |-> <<>>, pos |-> 1]
    /\ surfaced = <<>>
    /\ origin = <<>>
    /\ observed = Ev("null_value", 0, "none")
    /\ sink = <<>>
    /\ dumped = NotDumped

\* a cursor over the events evs, at its first event; its next() fails
\* instead of leaving the event failAt (0: it never fails); nexts is the
\* number of calls of its next made so far
CursorOver(evs, failAt) ==
    [evs |-> evs, pos |-> 1, failAt |-> failAt, nexts |-> 0]
\* a cursor c as its user has seen it: the code ec of the last operation
\* ("" when it succeeded), the position from of the cursor before that
\* operation (0 when it is the construction of the view), and the events
\* seen that current() has returned after each operation
Viewed(c, ec, from, seen) == [c |-> c, ec |-> ec, from |-> from, seen |-> seen]
\* no filter view is in use
FilterIdle ==
    /\ composed = Viewed(CursorOver(<<>>, 0), "", 0, <<>>)
    /\ single = Viewed(CursorOver(<<>>, 0), "", 0, <<>>)
    /\ preds = <<{}, {}>>
\* no event is being read
EventIdle ==
    /\ event = Ev("null_value", 0, "none")
    /\ converted =
           [target |-> "", ec_in |-> "", ec |-> "", int |-> 0, flag |-> FALSE,
            view |-> <<>>]
    /\ raised =
           [target |-> "", thrown |-> "", int |-> 0, flag |-> FALSE,
            view |-> <<>>]

\* no multiplication of digits was asked for
NoProduct == [op |-> "none", data |-> <<>>]
DigitIdle ==
    /\ operands = [A |-> 0, B |-> 0]
    /\ product = NoProduct
\* a Json value: its kind, its number (a bool is 1 or 0), its string and, for
\* an array or an object, its elements or members: each one a name_ (empty
\* for an array element) and a value_
Json(kind, val, str, items) ==
    [kind |-> kind, val |-> val, str |-> str, items |-> items]
\* Json(): the value a default-constructed Json holds
JsonDefault == Json("default", 0, "", <<>>)
\* json_decoder(): is_valid_(false), nothing on the stacks
json_decoder ==
    [result_ |-> JsonDefault, stack_ |-> <<>>, stack_offsets_ |-> <<>>,
     is_valid_ |-> FALSE]
\* the caller has made no call: the document it is in ("none" before the
\* first do_begin_document, "open" from do_begin_document, "closed" from
\* do_end_document), the calls made in it and the last call
NoCalls ==
    [phase |-> "none", calls |-> <<>>, open |-> <<>>, named |-> FALSE,
     got |-> FALSE]
JsonIdle ==
    /\ json = json_decoder
    /\ doc = NoCalls

Init ==
    /\ BignumInit
    /\ RaceInit
    /\ DigitIdle
    /\ JsonIdle
    /\ CursorInit
    /\ FilterIdle
    /\ EventIdle

\* basic_bignum()
CtorDefault ==
    \E r \in Regs :
        /\ Idle /\ steps = 0
        /\ reg' = [reg EXCEPT ![r] = bignum_default]
        /\ UNCHANGED <<out, steps, race_vars, cursor_vars>>
\* basic_bignum(int32_t i)
CtorInt32 ==
    \E r \in Regs, i \in I32In :
        /\ Idle /\ steps = 0
        /\ reg' = [reg EXCEPT ![r] = bignum_i32(i)]
        /\ UNCHANGED <<out, steps, race_vars, cursor_vars>>
\* basic_bignum(uint32_t u)
CtorUInt32 ==
    \E r \in Regs, u \in U32In, g \in BOOLEAN :
        /\ Idle /\ steps = 0
        /\ reg' = [reg EXCEPT ![r] = bignum_u32(u, g)]
        /\ UNCHANGED <<out, steps, race_vars, cursor_vars>>
\* basic_bignum(const int64_t& i)
CtorInt64 ==
    \E r \in Regs, i \in I64In :
        /\ Idle /\ steps = 0
        /\ reg' = [reg EXCEPT ![r] = bignum_i64(i)]
        /\ UNCHANGED <<out, steps, race_vars, cursor_vars>>
\* basic_bignum(const uint64_t& u)
CtorUInt64 ==
    \E r \in Regs, u \in U64In, g \in BOOLEAN :
        /\ Idle /\ steps = 0
        /\ reg' = [reg EXCEPT ![r] = bignum_u64(u, g)]
        /\ UNCHANGED <<out, steps, race_vars, cursor_vars>>
\* basic_bignum(const char* str)
CtorString ==
    \E r \in Regs, s \in StrIn :
        /\ Idle /\ steps = 0
        /\ reg' = [reg EXCEPT ![r] = bignum_str(s)]
        /\ UNCHANGED <<out, steps, race_vars, cursor_vars>>
\* basic_bignum(int signum, const uint8_t* str, size_t n)
CtorBytes ==
    \E r \in Regs, sg \in SignumIn, bs \in BytesIn :
        /\ Idle /\ steps = 0
        /\ reg' = [reg EXCEPT ![r] = bignum_bytes(sg, bs)]
        /\ UNCHANGED <<out, steps, race_vars, cursor_vars>>
\* basic_bignum(double x)
CtorDouble ==
    \E r \in Regs, negx \in BOOLEAN, n \in DoubleIn, g \in BOOLEAN :
        /\ Idle /\ steps = 0
        /\ reg' = [reg EXCEPT ![r] = bignum_double(negx, n, g)]
        /\ UNCHANGED <<out, steps, race_vars, cursor_vars>>
\* basic_bignum(const basic_bignum& n): b is constructed as a copy of a
CtorCopy ==
    /\ Idle
    /\ reg' = [reg EXCEPT !.b = reg.a]
    /\ UNCHANGED <<out, steps, race_vars, cursor_vars>>

\* -a
OpNegate ==
    /\ Idle
    /\ out' = Value("neg", Negate(reg.a))
    /\ UNCHANGED <<reg, steps, race_vars, cursor_vars>>
\* a + b
OpAdd ==
    /\ Idle
    /\ out' = Value("add", PlusEq(reg.a, reg.b))
    /\ UNCHANGED <<reg, steps, race_vars, cursor_vars>>
\* a - b
OpSub ==
    /\ Idle
    /\ out' = Value("sub", MinusEq(reg.a, reg.b))
    /\ UNCHANGED <<reg, steps, race_vars, cursor_vars>>
\* (a + b) - b
OpAddSub ==
    /\ Idle
    /\ out' = Value("addsub", MinusEq(PlusEq(reg.a, reg.b), reg.b))
    /\ UNCHANGED <<reg, steps, race_vars, cursor_vars>>
\* a * b and b * a
OpMul ==
    /\ Idle
    /\ out' = Outcome("mul", "ok", TimesEq(reg.a, reg.b), TimesEq(reg.b, reg.a),
                      <<>>, 0)
    /\ UNCHANGED <<reg, steps, race_vars, cursor_vars>>
\* a * k for an int k
OpMulInt ==
    \E k \in IntIn :
        /\ Idle
        /\ out' = Value("mulint", TimesEqInt(reg.a, k))
        /\ UNCHANGED <<reg, steps, race_vars, cursor_vars>>
\* the outcome of a division: the status and the value left in the operand
Divided(name, d) == Outcome(name, d.st, d.val, bignum_default, <<>>, 0)
\* q = a / b; r = a % b (r is not computed when a / b does not return)
DividedBoth(q, r) ==
    IF q.st # "ok" THEN Divided("divmod", q)
    ELSE Outcome("divmod", r.st, q.val, r.val, <<>>, 0)
\* a / b
OpDiv ==
    \E g \in BOOLEAN :
        /\ Idle
        /\ out' = Divided("div", DivEq(reg.a, reg.b, g))
        /\ UNCHANGED <<reg, steps, race_vars, cursor_vars>>
\* a % b
OpMod ==
    \E g \in BOOLEAN :
        /\ Idle
        /\ out' = Divided("mod", ModEq(reg.a, reg.b, g))
        /\ UNCHANGED <<reg, steps, race_vars, cursor_vars>>
\* q = a / b; r = a % b
OpDivMod ==
    \E g \in BOOLEAN :
        /\ Idle
        /\ out' = DividedBoth(DivEq(reg.a, reg.b, g), ModEq(reg.a, reg.b, g))
        /\ UNCHANGED <<reg, steps, race_vars, cursor_vars>>
\* (a * b) / b
OpMulDiv ==
    \E g \in BOOLEAN :
        /\ Idle
        /\ out' = Divided("muldiv", DivEq(TimesEq(reg.a, reg.b), reg.b, g))
        /\ UNCHANGED <<reg, steps, race_vars, cursor_vars>>
\* a << k
OpShl ==
    \E k \in ShiftIn :
        /\ Idle
        /\ out' = Value("shl", ShlEq(reg.a, k))
        /\ UNCHANGED <<reg, steps, race_vars, cursor_vars>>
\* a >> k
OpShr ==
    \E k \in ShiftIn :
        /\ Idle
        /\ out' = Value("shr", ShrEq(reg.a, k))
        /\ UNCHANGED <<reg, steps, race_vars, cursor_vars>>
\* (a << k) >> k
OpShlShr ==
    \E k \in ShiftIn :
        /\ Idle
        /\ out' = Value("shlshr", ShrEq(ShlEq(reg.a, k), k))
        /\ UNCHANGED <<reg, steps, race_vars, cursor_vars>>
\* a | b
OpOr ==
    /\ Idle
    /\ out' = Value("or", OrEq(reg.a, reg.b))
    /\ UNCHANGED <<reg, steps, race_vars, cursor_vars>>
\* a ^ b
OpXor ==
    /\ Idle
    /\ out' = Value("xor", XorEq(reg.a, reg.b))
    /\ UNCHANGED <<reg, steps, race_vars, cursor_vars>>
\* a & b
OpAnd ==
    /\ Idle
    /\ out' = Value("and", AndEq(reg.a, reg.b))
    /\ UNCHANGED <<reg, steps, race_vars, cursor_vars>>
\* a.compare(b)
OpCompare ==
    /\ Idle
    /\ out' = Outcome("compare", "ok", bignum_default, bignum_default, <<>>,
                      compare(reg.a, reg.b))
    /\ UNCHANGED <<reg, steps, race_vars, cursor_vars>>
\* a.to_string()
Printed(t) == Outcome("to_string", t.st, bignum_default, bignum_default, t.str, 0)
OpToString ==
    \E g \in BOOLEAN :
        /\ Idle
        /\ out' = Printed(to_string(reg.a, g))
        /\ UNCHANGED <<reg, steps, race_vars, cursor_vars>>
\* bignum(a.to_string().c_str())
Reparsed(t) ==
    Outcome("roundtrip", t.st,
            IF t.st = "ok" THEN bignum_str(t.str) ELSE bignum_default,
            bignum_default, t.str, 0)
OpRoundTrip ==
    \E g \in BOOLEAN :
        /\ Idle
        /\ out' = Reparsed(to_string(reg.a, g))
        /\ UNCHANGED <<reg, steps, race_vars, cursor_vars>>

\* sqrt is applied to the numbers that are not negative; on a negative one
\* the second loop of sqrt goes through values of either sign without
\* settling
sqrt_operand(a) == a.neg_ => \A i \in 1 .. length(a) : a.data_[i] = 0
\* sqrt(a)
OpSqrt ==
    \E g \in BOOLEAN :
        /\ Idle
        /\ sqrt_operand(reg.a)
        /\ out' = Divided("sqrt", sqrt(reg.a, g))
        /\ UNCHANGED <<reg, steps, race_vars, cursor_vars>>
\* sqrt(a * a)
OpSqrtSquare ==
    \E g \in BOOLEAN :
        /\ Idle
        /\ sqrt_operand(reg.a)
        /\ out' = Divided("sqrtsq", sqrt(TimesEq(reg.a, reg.a), g))
        /\ UNCHANGED <<reg, steps, race_vars, cursor_vars>>
\* basic_bignum(signum, bytes, n) as a temporary: the outcome keeps the
\* arguments, the bytes in txt and signum in cmp
TempBytes ==
    \E sg \in SignumIn, bs \in BytesIn :
        /\ Idle
        /\ out' = Outcome("bytes", "ok", bignum_bytes(sg, bs), bignum_default,
                          bs, sg)
        /\ UNCHANGED <<reg, steps, race_vars, cursor_vars>>

ValueOps == {"neg", "add", "sub", "addsub", "mul", "mulint", "div", "mod",
             "divmod", "muldiv", "shl", "shr", "shlshr", "or", "xor", "and",
             "roundtrip"}
\* a = <result>: operator=( const basic_bignum& y )
Store ==
    /\ out.op \in ValueOps
    /\ out.st = "ok"
    /\ steps < MaxSteps
    /\ length(out.res) <= MaxLen
    /\ reg' = [reg EXCEPT !.a = out.res]
    /\ steps' = steps + 1
    /\ out' = NoOutcome
    /\ UNCHANGED <<race_vars, cursor_vars>>
\* the result goes out of scope
Discard ==
    /\ ~Idle
    /\ out' = NoOutcome
    /\ UNCHANGED <<reg, steps, race_vars, cursor_vars>>

Next ==
    \/ CtorDefault \/ CtorInt32 \/ CtorUInt32 \/ CtorInt64 \/ CtorUInt64
    \/ CtorString \/ CtorBytes \/ CtorDouble \/ CtorCopy
    \/ OpNegate \/ OpAdd \/ OpSub \/ OpAddSub \/ OpMul \/ OpMulInt
    \/ OpDiv \/ OpMod \/ OpDivMod \/ OpMulDiv
    \/ OpShl \/ OpShr \/ OpShlShr \/ OpOr \/ OpXor \/ OpAnd
    \/ OpCompare \/ OpToString \/ OpRoundTrip
    \/ OpSqrt \/ OpSqrtSquare \/ TempBytes
    \/ Store \/ Discard

Spec == Init /\ [][Next]_vars

\* ------------------------------------------------------------------------
\* The multiplication of two digits: DDproduct on any two digits, and
\* operator*= on two bignums of one digit each
\* ------------------------------------------------------------------------
DigitIn == 0 .. max_basic_type
InitDigits ==
    /\ BignumInit
    /\ RaceInit
    /\ JsonIdle
    /\ CursorInit
    /\ FilterIdle
    /\ EventIdle
    /\ operands \in [A : DigitIn, B : DigitIn]
    /\ product = NoProduct
\* DDproduct(A, B, Hi, Lo): the product as the digits Lo, Hi
CallDDproduct ==
    /\ product' =
           [op |-> "DDproduct",
            data |-> <<DDproduct(operands.A, operands.B).Lo,
                       DDproduct(operands.A, operands.B).Hi>>]
    /\ UNCHANGED <<operands, bignum_vars, race_vars, visitor, decoder, surfaced,
                   origin, observed, sink_vars, filter_vars, event_vars,
                   json_vars>>
\* bignum(A) *= bignum(B) for A and B of one digit: length() + y.length() == 2
SingleWord ==
    /\ operands.A # 0
    /\ operands.B # 0
    /\ product' =
           [op |-> "single",
            data |-> TimesEq(initialize_u32(operands.A, FALSE),
                             initialize_u32(operands.B, FALSE)).data_]
    /\ UNCHANGED <<operands, bignum_vars, race_vars, visitor, decoder, surfaced,
                   origin, observed, sink_vars, filter_vars, event_vars,
                   json_vars>>

NextDigits == CallDDproduct \/ SingleWord

SpecDigits == InitDigits /\ [][NextDigits]_vars

\* ------------------------------------------------------------------------
\* to_string called from several threads (bignum.hpp:669-724): the accesses
\* to the statics p10 and ip10 are the steps, the rest of a call is local
\* ------------------------------------------------------------------------
RaceIn == {bignum_default, bignum_i32(3), bignum_i64(Base + 1),
           bignum_i64(0 - (Base + 1))}
ts_len(x) == (length(x) * basic_type_bits) \div 3 + 2
\* the call returns: the locals go away
Returned(c, result) ==
    [NoCall EXCEPT !.pc = "done", !.x = c.x, !.res = result, !.calls = c.calls]
\* a thread enters to_string: v(*this), data.resize(len), n = len
Entered(x, g, calls) ==
    [NoCall EXCEPT !.pc = "check", !.x = x, !.v = x, !.g = g,
                   !.data = [i \in 1 .. ts_len(x) |-> "\\0"],
                   !.n = ts_len(x), !.calls = calls]
\* to_string() is called; the branch v.length() == 0 returns "0" without
\* reading the statics
Call ==
    \E t \in Threads, x \in RaceIn, g \in BOOLEAN :
        /\ thread[t].pc \in {"idle", "done"}
        /\ thread[t].calls < MaxCalls
        /\ thread' = [thread EXCEPT ![t] =
               IF length(x) = 0
               THEN Returned(Entered(x, g, thread[t].calls + 1), to_string(x, g))
               ELSE Entered(x, g, thread[t].calls + 1)]
        /\ UNCHANGED <<shared, bignum_vars, cursor_vars>>
\* if ( p10 == 1 )
CheckFirst ==
    \E t \in Threads :
        /\ thread[t].pc = "check"
        /\ thread' = [thread EXCEPT ![t].pc =
               IF shared.p10 = 1 THEN "loop" ELSE "load"]
        /\ UNCHANGED <<shared, bignum_vars, cursor_vars>>
\* while ( p10 <= UINT_MAX/10 )
LoopTest ==
    \E t \in Threads :
        /\ thread[t].pc = "loop"
        /\ thread' = [thread EXCEPT ![t].pc =
               IF shared.p10 <= max_basic_type \div 10 THEN "mul" ELSE "load"]
        /\ UNCHANGED <<shared, bignum_vars, cursor_vars>>
\* p10 *= 10;
Multiply ==
    \E t \in Threads :
        /\ thread[t].pc = "mul"
        /\ shared' = [shared EXCEPT !.p10 = Wrap(shared.p10 * 10)]
        /\ thread' = [thread EXCEPT ![t].pc = "inc"]
        /\ UNCHANGED <<bignum_vars, cursor_vars>>
\* ip10++;
Increment ==
    \E t \in Threads :
        /\ thread[t].pc = "inc"
        /\ shared' = [shared EXCEPT !.ip10 = shared.ip10 + 1]
        /\ thread' = [thread EXCEPT ![t].pc = "loop"]
        /\ UNCHANGED <<bignum_vars, cursor_vars>>
\* basic_bignum LP10 = p10;
LoadP10 ==
    \E t \in Threads :
        /\ thread[t].pc = "load"
        /\ thread' = [thread EXCEPT ![t].LP10 = bignum_u32(shared.p10, thread[t].g),
                                     ![t].pc = "chunk"]
        /\ UNCHANGED <<shared, bignum_vars, cursor_vars>>
\* one round of the do-while loop with ip10 as the inner loop reads it; w is
\* the outcome of the inner loop on the buffer with ip10 cells put in front
\* of it, so that a write before data[0] shows as w.n < ip10
chunk_written(c, ip10, quot, w) ==
    IF w.n < ip10 THEN Returned(c, [st |-> "undefined", str |-> <<>>])
    ELSE IF length(quot) # 0
    THEN [c EXCEPT !.v = quot, !.n = w.n - ip10,
                   !.data = SubSeq(w.data, ip10 + 1, Len(w.data))]
    ELSE Returned(c, ts_move(IF c.x.neg_ THEN <<"-">> ELSE <<>>, Len(c.data),
                             [st |-> "ok", n |-> w.n - ip10,
                              data |-> SubSeq(w.data, ip10 + 1, Len(w.data))]))
\* d is the outcome of v.divide(LP10, v, R, true)
chunk_divided(c, ip10, d) ==
    IF d.st # "ok" THEN Returned(c, [st |-> d.st, str |-> <<>>])
    ELSE chunk_written(c, ip10, d.quot,
                       ts_digits([i \in 1 .. ip10 |-> "\\0"] \o c.data,
                                 c.n + ip10,
                                 IF length(d.rem) # 0 THEN D(d.rem, 0) ELSE 0,
                                 0, ip10, length(d.quot)))
\* do { v.divide(LP10, v, R, true); ... for ( j = 0; j < ip10; j++ ) ... }
\* while ( v.length() ), and after the last round the move and the return
Chunk ==
    \E t \in Threads :
        /\ thread[t].pc = "chunk"
        /\ thread' = [thread EXCEPT ![t] =
               chunk_divided(thread[t], shared.ip10,
                             divide(thread[t].v, thread[t].LP10, thread[t].v,
                                    bignum_default, TRUE, thread[t].g))]
        /\ UNCHANGED <<shared, bignum_vars, cursor_vars>>

NextRace ==
    \/ Call \/ CheckFirst \/ LoopTest \/ Multiply \/ Increment \/ LoadP10
    \/ Chunk

SpecRace == Init /\ [][NextRace]_vars

\* ------------------------------------------------------------------------
\* The event (staj2_cursor.hpp:130-447): the by-reference conversions
\* get<T>(ec).  A conversion returns [ec, val]: ec is the code it stored in
\* ec, "" when it left ec alone, and val the value it returned.
\* ------------------------------------------------------------------------
Converted(ec, val) == [ec |-> ec, val |-> val]
\* the integer types a conversion is asked for, with their widths.  Every
\* integer of the model is within 32 bits, so int64_t holds each of them and
\* uint64_t each that is not negative; uint64_t is asked for such values only.
IntegerTypeIn == {"int16_t", "uint16_t", "int64_t"}
IsSigned(T) == T \in {"int16_t", "int64_t"}
IsWide(T) == T \in {"int64_t", "uint64_t"}
BitsOf(T) == IF IsWide(T) THEN 64 ELSE 16
RECURSIVE Pow2(_)
Pow2(n) == IF n = 0 THEN 1 ELSE 2 * Pow2(n - 1)
\* the values of IntegerType
MinOf(T) == IF IsSigned(T) THEN 0 - Pow2(BitsOf(T) - 1) ELSE 0
MaxOf(T) == IF IsSigned(T) THEN Pow2(BitsOf(T) - 1) - 1 ELSE Pow2(BitsOf(T)) - 1
Holds(T, x) ==
    IF IsWide(T) THEN IsSigned(T) \/ x >= 0
    ELSE MinOf(T) <= x /\ x <= MaxOf(T)
\* static_cast<IntegerType>(x) of an integer x: the value of IntegerType
\* congruent to x modulo 2^bits
cast_integer(T, x) ==
    IF IsWide(T) THEN x
    ELSE IF IsSigned(T) /\ (x % Pow2(BitsOf(T))) >= Pow2(BitsOf(T) - 1)
    THEN (x % Pow2(BitsOf(T))) - Pow2(BitsOf(T))
    ELSE x % Pow2(BitsOf(T))
\* the integral part of the double d (held as 2 * d), towards zero
truncated(d) == IF d >= 0 THEN d \div 2 ELSE 0 - ((0 - d) \div 2)
\* static_cast<IntegerType>(d) of a double d: the truncated value when
\* IntegerType holds it, and undefined otherwise
cast_double(T, d) ==
    IF Holds(T, truncated(d))
    THEN Converted("", truncated(d))
    ELSE Converted("undefined", 0)
\* jsoncons::detail::to_integer(s, length, val): an optional minus sign, then
\* decimal digits, the value within IntegerType
IsDigitChar(c) == \E v \in 1 .. 10 : DigitChars[v] = c
RECURSIVE decimal_value(_, _)
decimal_value(s, acc) ==
    IF s = <<>> THEN acc
    ELSE decimal_value(Tail(s), 10 * acc + CharMinusZero(Head(s)))
to_integer_digits(T, digits, neg) ==
    IF digits = <<>> \/ \E i \in 1 .. Len(digits) : ~IsDigitChar(digits[i])
    THEN Converted("not_integer", 0)
    ELSE IF neg /\ Holds(T, 0 - decimal_value(digits, 0))
    THEN Converted("", 0 - decimal_value(digits, 0))
    ELSE IF ~neg /\ Holds(T, decimal_value(digits, 0))
    THEN Converted("", decimal_value(digits, 0))
    ELSE Converted("not_integer", 0)
to_integer(T, s) ==
    IF s # <<>> /\ Head(s) = "-"
    THEN IF IsSigned(T) THEN to_integer_digits(T, Tail(s), TRUE)
         ELSE Converted("not_integer", 0)
    ELSE to_integer_digits(T, s, FALSE)
\* binary::decode_half(bits) as a double (held doubled): sign bit 15, exponent
\* bits 14-10 with bias 15, fraction bits 9-0.  Exact for the half floats
\* that are multiples of one half; the others are brought towards zero.
half_magnitude(e, m) ==
    IF e = 0 THEN 0
    ELSE IF e >= 24 THEN (1024 + m) * Pow2(e - 24)
    ELSE (1024 + m) \div Pow2(24 - e)
decode_half(bits) ==
    IF bits >= 32768
    THEN 0 - half_magnitude((bits % 32768) \div 1024, bits % 1024)
    ELSE half_magnitude(bits \div 1024, bits % 1024)

\* get<string_view>(ec)
get_string_view(ev) ==
    IF ev.type = "string_value" THEN Converted("", ev.str)
    ELSE Converted("not_string_view", <<>>)
\* get<byte_string_view>(ec) taking the characters of a string tagged as
\* encoded bytes for a byte string
get_byte_string_view_OfString(ev) ==
    IF ev.type = "byte_string_value" THEN Converted("", ev.str)
    ELSE IF ev.type = "string_value"
            /\ ev.tag \in {"base16", "base64", "base64url"}
    THEN Converted("", ev.str)
    ELSE Converted("not_byte_string_view", <<>>)
\* get<byte_string_view>(ec)
get_byte_string_view(ev) ==
    IF ev.type = "byte_string_value" THEN Converted("", ev.str)
    ELSE Converted("not_byte_string_view", <<>>)
\* get<IntegerType>(ec)
get_integer(T, ev) ==
    IF ev.type = "string_value" THEN to_integer(T, ev.str)
    ELSE IF ev.type = "half_value" THEN Converted("", cast_integer(T, ev.val))
    ELSE IF ev.type = "double_value" THEN cast_double(T, ev.val)
    ELSE IF ev.type \in {"int64_value", "uint64_value"}
    THEN Converted("", cast_integer(T, ev.val))
    ELSE IF ev.type = "bool_value"
    THEN Converted("", cast_integer(T, IF ev.val # 0 THEN 1 ELSE 0))
    ELSE Converted("not_integer", 0)
\* as_double(ec); chars_to reads a string of decimal digits as their value,
\* and what it does with any other string is not known
as_double(ev) ==
    IF ev.type = "string_value"
    THEN IF to_integer("int64_t", ev.str).ec = ""
         THEN Converted("", 2 * to_integer("int64_t", ev.str).val)
         ELSE Converted("undefined", 0)
    ELSE IF ev.type = "double_value" THEN Converted("", ev.val)
    ELSE IF ev.type \in {"int64_value", "uint64_value"}
    THEN Converted("", 2 * ev.val)
    ELSE IF ev.type = "half_value" THEN Converted("", decode_half(ev.val))
    ELSE Converted("not_double", 0)
\* as_bool(ec)
as_bool(ev) ==
    IF ev.type = "bool_value" THEN Converted("", ev.val # 0)
    ELSE IF ev.type = "double_value" THEN Converted("", ev.val # 0)
    ELSE IF ev.type \in {"int64_value", "uint64_value"}
    THEN Converted("", ev.val # 0)
    ELSE Converted("not_bool", FALSE)
\* get<bool>(ec)
get_bool(ev) == as_bool(ev)

\* ------------------------------------------------------------------------
\* The cursor visitor (staj2_cursor.hpp:458-1042)
\* ------------------------------------------------------------------------
\* the predicates installed in the visitor: accept (the default) and one
\* that accepts the uint64 events only
PredIn == {"accept", "uint64_only"}
pred(name, ev) == IF name = "accept" THEN TRUE ELSE ev.type = "uint64_value"

\* visit_* answering pred_(event_, context) itself
visit_ReturnsPred(v, ev) ==
    [v |-> [v EXCEPT !.event_ = ev], more |-> pred(v.pred_, ev)]
\* visit_*: event_ = basic_staj2_event(...); return !pred_(event_, context)
visit(v, ev) ==
    [v |-> [v EXCEPT !.event_ = ev], more |-> ~pred(v.pred_, ev)]
visit_begin_object(v, tag) == visit(v, Ev("begin_object", NoLength, tag))
visit_end_object(v) == visit(v, Ev("end_object", 0, "none"))
visit_begin_array(v, len, tag) == visit(v, Ev("begin_array", len, tag))
visit_end_array(v) == visit(v, Ev("end_array", 0, "none"))
visit_uint64(v, value, tag) == visit(v, Ev("uint64_value", value, tag))
visit_int64(v, value, tag) == visit(v, Ev("int64_value", value, tag))
visit_half(v, value, tag) == visit(v, Ev("half_value", value, tag))
visit_double(v, value, tag) == visit(v, Ev("double_value", value, tag))
visit_null(v, tag) == visit(v, Ev("null_value", 0, tag))
visit_bool(v, value, tag) ==
    visit(v, Ev("bool_value", IF value THEN 1 ELSE 0, tag))
visit_string(v, s, tag) == visit(v, EvView("string_value", s, tag))
visit_byte_string(v, s, tag) == visit(v, EvView("byte_string_value", s, tag))
visit_byte_string_ext(v, s, ext_tag) ==
    visit(v, EvExt("byte_string_value", s, ext_tag))
\* a reset that leaves index_ as it is
reset_KeepsIndex(v) ==
    [v EXCEPT !.event_ = Ev("null_value", 0, "none"), !.state_ = "none",
              !.data_ = NoView, !.shape_ = <<>>]
\* reset: event_ = null_value; state_ = {}; data_ = {}; shape_ = {};
\* index_ = 0
reset(v) ==
    [v EXCEPT !.event_ = Ev("null_value", 0, "none"), !.state_ = "none",
              !.data_ = NoView, !.shape_ = <<>>, !.index_ = 0]

\* the visit_typed_array overloads, named by their element type; half is the
\* overload that takes half_arg_t and a span of uint16_t
OverloadIn == {"uint8", "uint16", "uint32", "uint64", "int8", "int16", "int32",
               "int64", "half", "float", "double"}
\* the static type of data.data() in the overload
PointerOf(overload) == IF overload = "half" THEN "uint16" ELSE overload
\* typed_array_view(pointer, size): the element type is that of the pointer
typed_array_view(pointer, elems) == [type |-> pointer, elems |-> elems]
\* visit_typed_array: state_ = typed_array; data_ = typed_array_view(
\* data.data(), data.size()); index_ = 0; return this->begin_array(tag, ...).
\* begin_array, end_array and the *_value methods of the base class pass the
\* call on to the visit_ method of the same name.
visit_typed_array(v, overload, elems, tag) ==
    visit_begin_array([v EXCEPT !.state_ = "typed_array",
                                !.data_ = typed_array_view(PointerOf(overload), elems),
                                !.index_ = 0],
                      NoLength, tag)
\* visit_begin_multi_dim: state_ = multi_dim; shape_ = shape;
\* return this->begin_array(2, tag, ...)
visit_begin_multi_dim(v, shape, tag) ==
    visit_begin_array([v EXCEPT !.state_ = "multi_dim", !.shape_ = shape], 2, tag)
\* visit_end_multi_dim: return this->end_array(context, ec)
visit_end_multi_dim(v) == visit_end_array(v)

in_available(v) == v.state_ # "none"
is_typed_array(v) == v.data_.type # "none"
\* the switch of advance_typed_array on data_.type(), on the element at index_
element_event(v, type, x) ==
    IF type \in {"uint8", "uint16", "uint32", "uint64"}
    THEN visit_uint64(v, x, "none").v
    ELSE IF type \in {"int8", "int16", "int32", "int64"}
    THEN visit_int64(v, x, "none").v
    ELSE IF type = "half" THEN visit_half(v, x, "none").v
    ELSE IF type \in {"float", "double"} THEN visit_double(v, x, "none").v
    ELSE v
\* advance_typed_array with the index raised twice
advance_typed_array_SkipsOne(v) ==
    IF is_typed_array(v)
    THEN IF v.index_ < Len(v.data_.elems)
         THEN [element_event(v, v.data_.type, v.data_.elems[v.index_ + 1])
                  EXCEPT !.index_ = v.index_ + 2]
         ELSE [visit_end_array(v).v EXCEPT !.state_ = "none", !.data_ = NoView,
                                           !.index_ = 0]
    ELSE v
advance_typed_array(v) ==
    IF is_typed_array(v)
    THEN IF v.index_ < Len(v.data_.elems)
         THEN [element_event(v, v.data_.type, v.data_.elems[v.index_ + 1])
                  EXCEPT !.index_ = v.index_ + 1]
         ELSE [visit_end_array(v).v EXCEPT !.state_ = "none", !.data_ = NoView,
                                           !.index_ = 0]
    ELSE v
advance_multi_dim(v) ==
    IF Len(v.shape_) # 0
    THEN IF v.state_ = "multi_dim"
         THEN [visit_begin_array(v, Len(v.shape_), "none").v
                  EXCEPT !.state_ = "shape"]
         ELSE IF v.index_ < Len(v.shape_)
         THEN [visit_uint64(v, v.shape_[v.index_ + 1], "none").v
                  EXCEPT !.index_ = v.index_ + 1]
         ELSE [visit_end_array(v).v EXCEPT !.state_ = "none", !.shape_ = <<>>,
                                           !.index_ = 0]
    ELSE v
send_available(v) ==
    IF v.state_ = "typed_array" THEN advance_typed_array(v)
    ELSE IF v.state_ \in {"multi_dim", "shape"} THEN advance_multi_dim(v)
    ELSE v

\* a call the sink (a basic_json_visitor2) receives: the method, its value,
\* view or span argument, its tag argument (semantic_tag::none when the
\* caller passes none) and its ext_tag argument (0 when the method called
\* takes none)
SinkCall(op, val, tag) ==
    [op |-> op, val |-> val, str |-> <<>>, data |-> NoView, tag |-> tag,
     ext |-> 0]
SinkView(op, s, tag) ==
    [op |-> op, val |-> 0, str |-> s, data |-> NoView, tag |-> tag, ext |-> 0]
SinkSpan(op, data) ==
    [op |-> op, val |-> 0, str |-> <<>>, data |-> data, tag |-> "none",
     ext |-> 0]
\* the sink answers true to its first patience - 1 calls, false ever after
NeverStops == 99
PatienceIn == {1, 2, NeverStops}
SinkMore(calls, patience) == Len(calls) < patience
\* staj2_to_saj_event(ev, visitor, context, ec): the call made for ev; the
\* throwing get<T>() it uses never throws, T being the type of the event
staj2_to_saj_event(ev) ==
    IF ev.type \in {"begin_array", "begin_object"}
    THEN SinkCall(ev.type, NoLength, ev.tag)
    ELSE IF ev.type \in {"end_array", "end_object"}
    THEN SinkCall(ev.type, 0, "none")
    ELSE IF ev.type = "string_value"
    THEN SinkView(ev.type, get_string_view(ev).val, ev.tag)
    ELSE IF ev.type = "byte_string_value"
    THEN SinkView(ev.type, get_byte_string_view(ev).val, ev.tag)
    ELSE IF ev.type = "null_value" THEN SinkCall(ev.type, 0, ev.tag)
    ELSE IF ev.type = "bool_value"
    THEN SinkCall(ev.type, IF get_bool(ev).val THEN 1 ELSE 0, ev.tag)
    ELSE IF ev.type = "int64_value"
    THEN SinkCall(ev.type, get_integer("int64_t", ev).val, ev.tag)
    ELSE IF ev.type = "uint64_value"
    THEN SinkCall(ev.type, get_integer("uint64_t", ev).val, ev.tag)
    ELSE IF ev.type = "half_value"
    THEN SinkCall(ev.type, get_integer("uint16_t", ev).val, ev.tag)
    ELSE SinkCall(ev.type, as_double(ev).val, ev.tag)
\* the switch of dump with no case for the floating-point types
dump_element_NoDouble(type, x) ==
    IF type \in {"uint8", "uint16", "uint32", "uint64"}
    THEN <<SinkCall("uint64_value", x, "none")>>
    ELSE IF type \in {"int8", "int16", "int32", "int64"}
    THEN <<SinkCall("int64_value", x, "none")>>
    ELSE <<>>
\* the switch of dump on data_.type(), on the element at index_: the sink's
\* uint64_value, int64_value or double_value, no call for any other type
dump_element(type, x) ==
    IF type \in {"uint8", "uint16", "uint32", "uint64"}
    THEN <<SinkCall("uint64_value", x, "none")>>
    ELSE IF type \in {"int8", "int16", "int32", "int64"}
    THEN <<SinkCall("int64_value", x, "none")>>
    ELSE IF type \in {"float", "double"}
    THEN <<SinkCall("double_value", x, "none")>>
    ELSE <<>>
\* the sink's answer after the calls made so far, the last of them an
\* element of the given type: more keeps its value when no call was made
dump_more(calls, type, patience) ==
    IF dump_element(type, 0) = <<>> THEN TRUE ELSE SinkMore(calls, patience)
\* the loop of dump: while (more && is_typed_array())
RECURSIVE dump_loop(_, _, _, _)
dump_loop(v, calls, more, patience) ==
    IF more /\ is_typed_array(v)
    THEN IF v.index_ < Len(v.data_.elems)
         THEN dump_loop([v EXCEPT !.index_ = v.index_ + 1],
                        calls \o dump_element(v.data_.type,
                                              v.data_.elems[v.index_ + 1]),
                        dump_more(calls \o dump_element(v.data_.type,
                                      v.data_.elems[v.index_ + 1]),
                                  v.data_.type, patience),
                        patience)
         ELSE dump_loop([v EXCEPT !.state_ = "none", !.data_ = NoView,
                                  !.index_ = 0],
                        Append(calls, SinkCall("end_array", 0, "none")),
                        SinkMore(Append(calls, SinkCall("end_array", 0, "none")),
                                 patience),
                        patience)
    ELSE [v |-> v, calls |-> calls, more |-> more]
\* the bulk call of dump made twice
dump_bulk_Twice(data) ==
    IF data.type \in {"uint8", "uint16", "uint32", "uint64", "int8", "int16",
                      "int32", "int64", "float", "double"}
    THEN <<SinkSpan("typed_array", data), SinkSpan("typed_array", data)>>
    ELSE <<>>
\* the bulk call of dump: visitor.typed_array(data_.data(...)) with the span
\* alone, no call for a type that is none of the ten
dump_bulk(data) ==
    IF data.type \in {"uint8", "uint16", "uint32", "uint64", "int8", "int16",
                      "int32", "int64", "float", "double"}
    THEN <<SinkSpan("typed_array", data)>>
    ELSE <<>>
\* dump(visitor, context, ec)
dump(v, patience) ==
    IF is_typed_array(v)
    THEN IF v.index_ # 0
         THEN dump_loop(v, <<staj2_to_saj_event(v.event_)>>,
                        SinkMore(<<staj2_to_saj_event(v.event_)>>, patience),
                        patience)
         ELSE [v |-> [v EXCEPT !.state_ = "none", !.data_ = NoView],
               calls |-> dump_bulk(v.data_),
               more |-> dump_bulk(v.data_) = <<>>
                        \/ SinkMore(dump_bulk(v.data_), patience)]
    ELSE [v |-> v, calls |-> <<staj2_to_saj_event(v.event_)>>,
          more |-> SinkMore(<<staj2_to_saj_event(v.event_)>>, patience)]

\* ------------------------------------------------------------------------
\* The cursor and its decoder: the decoder pushes its calls into the visitor
\* until one returns false, next() takes one event of a pending expansion or
\* resumes the decoder
\* ------------------------------------------------------------------------
Tags == {"none", "clamped"}
ElemsIn == {<<>>, <<7>>, <<7, 9>>}
ShapeIn == {<<>>, <<2>>, <<2, 3>>}
\* a call of the decoder: the visitor method, and its arguments
PushCall(op, kind, elems, val, tag) ==
    [op |-> op, kind |-> kind, elems |-> elems, val |-> val, str |-> <<>>,
     tag |-> tag, ext |-> 0]
BeginArray == PushCall("begin_array", "", <<>>, 0, "none")
EndArray == PushCall("end_array", "", <<>>, 0, "none")
BeginObject == PushCall("begin_object", "", <<>>, 0, "none")
EndObject == PushCall("end_object", "", <<>>, 0, "none")
UInt64(n) == PushCall("uint64_value", "", <<>>, n, "none")
TypedArray(o, e, t) == PushCall("typed_array", o, e, 0, t)
BeginMultiDim(sh, t) == PushCall("begin_multi_dim", "", sh, 0, t)
EndMultiDim == PushCall("end_multi_dim", "", <<>>, 0, "none")
\* the values inside an array, the bodies of a multi-dimensional array, and
\* the inputs the decoder reads: one value each
ItemIn == {<<UInt64(5)>>, <<TypedArray("uint8", <<7>>, "none")>>,
           <<BeginArray, EndArray>>, <<BeginObject, EndObject>>,
           <<BeginMultiDim(<<2>>, "none"), TypedArray("uint8", <<7>>, "none"),
             EndMultiDim>>}
BodyIn == {<<BeginArray, UInt64(5), EndArray>>,
           <<TypedArray("uint8", <<7>>, "none")>>}
ScriptIn ==
    {<<TypedArray(o, e, t)>> : o \in OverloadIn, e \in ElemsIn, t \in Tags}
    \cup ItemIn
    \cup {<<BeginArray>> \o a \o b \o <<EndArray>> :
              a \in ItemIn \cup {<<>>}, b \in ItemIn}
    \cup {<<BeginMultiDim(sh, t)>> \o b \o <<EndMultiDim>> :
              sh \in ShapeIn, t \in Tags, b \in BodyIn}

\* the decoder calls the visitor method of c
push(v, c) ==
    IF c.op = "begin_array" THEN visit_begin_array(v, NoLength, c.tag)
    ELSE IF c.op = "end_array" THEN visit_end_array(v)
    ELSE IF c.op = "begin_object" THEN visit_begin_object(v, c.tag)
    ELSE IF c.op = "end_object" THEN visit_end_object(v)
    ELSE IF c.op = "uint64_value" THEN visit_uint64(v, c.val, c.tag)
    ELSE IF c.op = "typed_array" THEN visit_typed_array(v, c.kind, c.elems, c.tag)
    ELSE IF c.op = "begin_multi_dim" THEN visit_begin_multi_dim(v, c.elems, c.tag)
    ELSE IF c.op = "end_multi_dim" THEN visit_end_multi_dim(v)
    ELSE IF c.op = "int64_value" THEN visit_int64(v, c.val, c.tag)
    ELSE IF c.op = "half_value" THEN visit_half(v, c.val, c.tag)
    ELSE IF c.op = "double_value" THEN visit_double(v, c.val, c.tag)
    ELSE IF c.op = "null_value" THEN visit_null(v, c.tag)
    ELSE IF c.op = "bool_value" THEN visit_bool(v, c.val # 0, c.tag)
    ELSE IF c.op = "string_value" THEN visit_string(v, c.str, c.tag)
    ELSE IF c.op = "byte_string_value" THEN visit_byte_string(v, c.str, c.tag)
    ELSE visit_byte_string_ext(v, c.str, c.ext)
\* the decoder runs from calls[pos] until a call returns false or the input
\* ends
RECURSIVE run(_, _, _)
run_pushed(r, calls, pos) ==
    IF r.more THEN run(r.v, calls, pos + 1)
    ELSE [v |-> r.v, pos |-> pos + 1, stopped |-> TRUE]
run(v, calls, pos) ==
    IF pos > Len(calls) THEN [v |-> v, pos |-> pos, stopped |-> FALSE]
    ELSE run_pushed(push(v, calls[pos]), calls, pos)

InitCursor ==
    /\ BignumInit
    /\ RaceInit
    /\ DigitIdle
    /\ JsonIdle
    /\ \E p \in PredIn : visitor = Constructed(p)
    /\ \E sc \in ScriptIn : decoder = [calls |-> sc, pos |-> 1]
    /\ surfaced = <<>>
    /\ origin = <<>>
    /\ observed = Ev("null_value", 0, "none")
    /\ sink = <<>>
    /\ dumped = NotDumped
    /\ FilterIdle
    /\ EventIdle

\* the call that set state_: the last typed_array or begin_multi_dim call
\* among calls[1 .. n]
RECURSIVE expansion_call(_, _)
expansion_call(calls, n) ==
    IF n = 0 THEN 0
    ELSE IF calls[n].op \in {"typed_array", "begin_multi_dim"} THEN n
    ELSE expansion_call(calls, n - 1)
\* next() with an expansion pending: cursor_visitor_.send_available(ec)
NextAvailable ==
    /\ in_available(visitor)
    /\ Len(surfaced) < MaxPulls
    /\ visitor' = send_available(visitor)
    /\ surfaced' = Append(surfaced, visitor'.event_)
    /\ origin' = Append(origin, expansion_call(decoder.calls, decoder.pos - 1))
    /\ UNCHANGED <<decoder, observed, sink_vars, filter_vars, event_vars, bignum_vars,
                   race_vars, digit_vars, json_vars>>
\* next() with no expansion pending: the decoder is resumed
NextDecoder ==
    /\ ~in_available(visitor)
    /\ decoder.pos <= Len(decoder.calls)
    /\ Len(surfaced) < MaxPulls
    /\ visitor' = run(visitor, decoder.calls, decoder.pos).v
    /\ decoder' = [decoder EXCEPT !.pos =
           run(visitor, decoder.calls, decoder.pos).pos]
    /\ surfaced' = IF run(visitor, decoder.calls, decoder.pos).stopped
                   THEN Append(surfaced, visitor'.event_)
                   ELSE surfaced
    /\ origin' = IF run(visitor, decoder.calls, decoder.pos).stopped
                 THEN Append(origin, decoder'.pos - 1)
                 ELSE origin
    /\ UNCHANGED <<observed, sink_vars, filter_vars, event_vars, bignum_vars,
                   race_vars, digit_vars, json_vars>>
\* current(): a reference to the visitor's event_
Current ==
    /\ observed' = visitor.event_
    /\ UNCHANGED <<visitor, decoder, surfaced, origin, sink_vars, filter_vars,
                   event_vars,
                   bignum_vars, race_vars, digit_vars, json_vars>>

NextCursor == NextAvailable \/ NextDecoder \/ Current

SpecCursor == InitCursor /\ [][NextCursor]_vars

\* the inputs whose events all fit in MaxPulls pulls: a caller that keeps
\* pulling reads each of them to its end
LiveScriptIn ==
    {<<TypedArray(o, e, t)>> : o \in OverloadIn, e \in ElemsIn, t \in Tags}
    \cup ItemIn
    \cup {<<BeginMultiDim(sh, t)>> \o b \o <<EndMultiDim>> :
              sh \in ShapeIn, t \in Tags, b \in BodyIn}
InitCursorLive ==
    /\ InitCursor
    /\ decoder.calls \in LiveScriptIn
\* the caller's loop while (!cursor.done()) cursor.next(): a pull that can
\* be made is made
SpecCursorLive ==
    /\ InitCursorLive
    /\ [][NextCursor]_vars
    /\ WF_vars(NextAvailable)
    /\ WF_vars(NextDecoder)

\* ------------------------------------------------------------------------
\* The cursor with read_to and reset: read_to(sink) hands the sink to the
\* visitor's dump, reset() resets the visitor and starts the input again
\* ------------------------------------------------------------------------
Int64(n) == PushCall("int64_value", "", <<>>, n, "none")
Half(bits) == PushCall("half_value", "", <<>>, bits, "none")
Double(d) == PushCall("double_value", "", <<>>, d, "none")
Null(t) == PushCall("null_value", "", <<>>, 0, t)
Bool(b) == PushCall("bool_value", "", <<>>, IF b THEN 1 ELSE 0, "none")
String(s, t) == [PushCall("string_value", "", <<>>, 0, t) EXCEPT !.str = s]
ByteString(s, t) ==
    [PushCall("byte_string_value", "", <<>>, 0, t) EXCEPT !.str = s]
ByteStringExt(s, ext_tag) ==
    [PushCall("byte_string_ext", "", <<>>, 0, "ext")
        EXCEPT !.str = s, !.ext = ext_tag]
\* one call of every scalar method: 15360 is the half float 1.0, 5 the
\* double 2.5
ScalarIn == {UInt64(5), Int64(0 - 3), Half(15360), Double(5), Null("none"),
             Bool(TRUE), String(<<"1", "2">>, "none"),
             String(<<"f", "f">>, "base16"), ByteString(<<"a", "b">>, "base64"),
             ByteStringExt(<<"a", "b">>, 7)}
DumpScriptIn ==
    ScriptIn
    \cup {<<c>> : c \in ScalarIn}
    \cup {<<BeginObject, c, EndObject>> : c \in ScalarIn}
    \cup {<<BeginArray, c, TypedArray("int16", <<7, 9>>, "clamped"), EndArray>> :
              c \in ScalarIn}
InitDump ==
    /\ BignumInit
    /\ RaceInit
    /\ DigitIdle
    /\ JsonIdle
    /\ \E p \in PredIn : visitor = Constructed(p)
    /\ \E sc \in DumpScriptIn : decoder = [calls |-> sc, pos |-> 1]
    /\ surfaced = <<>>
    /\ origin = <<>>
    /\ observed = Ev("null_value", 0, "none")
    /\ sink = <<>>
    /\ dumped = NotDumped
    /\ FilterIdle
    /\ EventIdle
\* read_to(sink): cursor_visitor_.dump(sink, context, ec)
Dump ==
    \E patience \in PatienceIn :
        /\ dumped' = [v |-> visitor, patience |-> patience]
        /\ sink' = dump(visitor, patience).calls
        /\ visitor' = dump(visitor, patience).v
        /\ UNCHANGED <<decoder, surfaced, origin, observed, filter_vars, event_vars,
                       bignum_vars, race_vars, digit_vars, json_vars>>
\* reset(): cursor_visitor_.reset(), and the decoder is at the start of its
\* input
Reset ==
    /\ visitor' = reset(visitor)
    /\ decoder' = [decoder EXCEPT !.pos = 1]
    /\ surfaced' = <<>>
    /\ origin' = <<>>
    /\ UNCHANGED <<observed, sink_vars, filter_vars, event_vars, bignum_vars,
                   race_vars, digit_vars, json_vars>>

NextDump == NextAvailable \/ NextDecoder \/ Current \/ Dump \/ Reset

SpecDump == InitDump /\ [][NextDump]_vars

\* ------------------------------------------------------------------------
\* The filter view (staj2_cursor.hpp:1113-1179) over a cursor
\* ------------------------------------------------------------------------
\* the events of the cursors that are filtered, and the stateless
\* predicates: a predicate is a set of tests and accepts the events that
\* pass them all, so that the conjunction of p and q is p \cup q
MaxEvents == 3
FilterEventIn == {Ev("uint64_value", 1, "none"), Ev("uint64_value", 2, "none"),
                  Ev("uint64_value", 4, "none"), Ev("begin_array", NoLength, "none")}
TestIn == {"is_uint64", "even", "small"}
Passes(test, ev) ==
    IF test = "is_uint64" THEN ev.type = "uint64_value"
    ELSE IF test = "even" THEN ev.type = "uint64_value" /\ ev.val % 2 = 0
    ELSE ev.type = "uint64_value" /\ ev.val <= 2
pred_(p, ev) == \A test \in p : Passes(test, ev)
FilterPredIn == {{}} \cup {{test} : test \in TestIn}
RECURSIVE SeqsOf(_, _)
SeqsOf(S, n) ==
    IF n = 0 THEN {<<>>}
    ELSE SeqsOf(S, n - 1)
         \cup {Append(r, x) : r \in {t \in SeqsOf(S, n - 1) : Len(t) = n - 1},
                              x \in S}

\* the cursor under the views: done() once it has left its last event,
\* current() its event, next() one event on or the failure
cursor_done(c) == c.pos > Len(c.evs)
cursor_current(c) ==
    IF c.pos <= Len(c.evs) THEN c.evs[c.pos] ELSE Ev("null_value", 0, "none")
cursor_next(c) ==
    IF c.pos = c.failAt
    THEN [c |-> [c EXCEPT !.nexts = c.nexts + 1], ec |-> "error"]
    ELSE [c |-> [c EXCEPT !.pos = c.pos + 1, !.nexts = c.nexts + 1], ec |-> ""]
\* The views ps[1 .. k] are stacked on the cursor c, ps[1] the innermost;
\* done() and current() of a view are those of the cursor under it.
\* next() and next(ec) of view k (of the cursor itself for k = 0): one next
\* of what is under it, then while (!done() && !pred_(current(), context())
\* && !ec) one more.  A failure leaves the loop of next(ec) by its test of ec
\* and the loops of next() and of the constructor as an exception.
RECURSIVE next(_, _, _)
RECURSIVE skip_rejected(_, _, _)
\* the loop as an if: at most one more next
skip_rejected_Once(r, ps, k) ==
    IF ~cursor_done(r.c) /\ ~pred_(ps[k], cursor_current(r.c)) /\ r.ec = ""
    THEN next(r.c, ps, k - 1)
    ELSE r
\* the loop without its test of ec: after a failure on a rejected event it
\* asks for one more next
skip_rejected_Retry(r, ps, k) ==
    IF ~cursor_done(r.c) /\ ~pred_(ps[k], cursor_current(r.c))
    THEN IF r.ec = "" THEN skip_rejected(next(r.c, ps, k - 1), ps, k)
         ELSE next(r.c, ps, k - 1)
    ELSE r
skip_rejected(r, ps, k) ==
    IF ~cursor_done(r.c) /\ ~pred_(ps[k], cursor_current(r.c)) /\ r.ec = ""
    THEN skip_rejected(next(r.c, ps, k - 1), ps, k)
    ELSE r
\* a view whose first step is taken on the cursor itself, under every view
next_Bypass(c, ps, k) ==
    IF k = 0 THEN cursor_next(c)
    ELSE skip_rejected(cursor_next(c), ps, k)
next(c, ps, k) ==
    IF k = 0 THEN cursor_next(c)
    ELSE skip_rejected(next(c, ps, k - 1), ps, k)
\* basic_staj2_filter_view(cursor, pred): the loop alone
basic_staj2_filter_view(c, ps, k) == skip_rejected([c |-> c, ec |-> ""], ps, k)
\* operator|: cursor | ps[1] | ... | ps[k], each view built on the one before;
\* a constructor that throws ends the expression
RECURSIVE piped(_, _, _)
piped_on(r, ps, k) ==
    IF r.ec = "" THEN basic_staj2_filter_view(r.c, ps, k) ELSE r
piped(c, ps, k) ==
    IF k = 0 THEN [c |-> c, ec |-> ""]
    ELSE piped_on(piped(c, ps, k - 1), ps, k)
\* the exception of a failure is the code "thrown"
Thrown(r) == IF r.ec = "" THEN r ELSE [r EXCEPT !.ec = "thrown"]
\* what the user of the outermost view sees after an operation that began
\* at position from
Shown(r, from, seen) ==
    Viewed(r.c, r.ec, from,
           IF r.ec = "" /\ ~cursor_done(r.c)
           THEN Append(seen, cursor_current(r.c))
           ELSE seen)

InitFilter ==
    /\ BignumInit
    /\ RaceInit
    /\ DigitIdle
    /\ JsonIdle
    /\ CursorInit
    /\ EventIdle
    /\ \E evs \in SeqsOf(FilterEventIn, MaxEvents), p \in FilterPredIn,
          q \in FilterPredIn :
          \E failAt \in 0 .. Len(evs) :
              /\ preds = <<p, q>>
              /\ composed = Shown(Thrown(piped(CursorOver(evs, failAt),
                                               <<p, q>>, 2)), 0, <<>>)
              /\ single = Shown(Thrown(piped(CursorOver(evs, failAt),
                                             <<p \cup q>>, 1)), 0, <<>>)
\* next() on the outermost view of both cursors
FilterNext ==
    /\ composed.ec = "" /\ ~cursor_done(composed.c)
    /\ composed' = Shown(Thrown(next(composed.c, preds, 2)), composed.c.pos,
                         composed.seen)
    /\ single' = Shown(Thrown(next(single.c, <<preds[1] \cup preds[2]>>, 1)),
                       single.c.pos, single.seen)
    /\ UNCHANGED <<preds, visitor, decoder, surfaced, origin, observed,
                   sink_vars, event_vars, bignum_vars, race_vars, digit_vars, json_vars>>
\* next(ec) on the outermost view of both cursors
FilterNextEc ==
    /\ composed.ec = "" /\ ~cursor_done(composed.c)
    /\ composed' = Shown(next(composed.c, preds, 2), composed.c.pos,
                         composed.seen)
    /\ single' = Shown(next(single.c, <<preds[1] \cup preds[2]>>, 1),
                       single.c.pos, single.seen)
    /\ UNCHANGED <<preds, visitor, decoder, surfaced, origin, observed,
                   sink_vars, event_vars, bignum_vars, race_vars, digit_vars, json_vars>>

NextFilter == FilterNext \/ FilterNextEc

SpecFilter == InitFilter /\ [][NextFilter]_vars

\* ------------------------------------------------------------------------
\* An event and the conversions asked of it
\* ------------------------------------------------------------------------
\* events of every kind: 15360, 16640 and 49408 are the half floats 1.0, 2.5
\* and -2.5; 5, -5, 1 and -3 the doubles 2.5, -2.5, 0.5 and -1.5
EventIn ==
    {Ev(type, 0, "none") :
        type \in {"null_value", "begin_array", "end_array", "begin_object",
                  "end_object"}}
    \cup {Ev("bool_value", b, "none") : b \in {0, 1}}
    \cup {Ev("int64_value", n, "none") : n \in {0 - 3, 0, 70000}}
    \cup {Ev("uint64_value", n, "none") : n \in {0, 5, 40000}}
    \cup {Ev("half_value", h, "none") : h \in {0, 15360, 16640, 49408}}
    \cup {Ev("double_value", d, "none") : d \in {0, 5, 0 - 5, 1, 0 - 3}}
    \cup {EvView("string_value", str, "none") :
             str \in {<<>>, <<"1", "2">>, <<"-", "7">>, <<"x">>, <<"1", "x">>}}
    \cup {EvView("string_value", <<"f", "f">>, t) :
             t \in {"none", "base16", "base64", "base64url"}}
    \cup {EvView("byte_string_value", <<"a", "b">>, t) : t \in {"none", "base64"}}
    \cup {EvExt("byte_string_value", <<"a", "b">>, 7)}
\* the error_code handed to a conversion: clear, or holding an older code
EcIn == {"", "stale"}
\* the conversion made: the target type, the error_code before and after,
\* and the integer, boolean or view returned
Conversion(target, ec_in, r, int, flag, view) ==
    [target |-> target, ec_in |-> ec_in,
     ec |-> IF r.ec = "" THEN ec_in ELSE r.ec,
     int |-> int, flag |-> flag, view |-> view]
NoConversion == Conversion("", "", Converted("", 0), 0, FALSE, <<>>)
\* the target types of get<T>
TargetIn == IntegerTypeIn \cup {"bool", "string_view", "byte_string_view"}
\* get<T>(ec), by the overload that T selects
get_ec(T, ev) ==
    IF T = "bool" THEN get_bool(ev)
    ELSE IF T = "string_view" THEN get_string_view(ev)
    ELSE IF T = "byte_string_view" THEN get_byte_string_view(ev)
    ELSE get_integer(T, ev)
\* a throwing get that returns whatever get<T>(ec) left in val
get_Swallows(r) == [thrown |-> "", val |-> r.val]
\* T get() const: std::error_code ec; T val = get<T>(ec);
\* if (ec) throw ser_error(ec); return val;
get(r) ==
    IF r.ec # ""
    THEN [thrown |-> r.ec, val |-> r.val]
    ELSE [thrown |-> "", val |-> r.val]
\* the throwing call made: the target type, the code of the ser_error thrown
\* ("" when the call returned) and the integer, boolean or view returned
Raised(target, g) ==
    [target |-> target, thrown |-> g.thrown,
     int |-> IF g.thrown = "" /\ target \in IntegerTypeIn THEN g.val ELSE 0,
     flag |-> IF g.thrown = "" /\ target = "bool" THEN g.val ELSE FALSE,
     view |-> IF g.thrown = "" /\ target \in {"string_view", "byte_string_view"}
              THEN g.val ELSE <<>>]
NotRaised == [target |-> "", thrown |-> "", int |-> 0, flag |-> FALSE, view |-> <<>>]

InitEvent ==
    /\ BignumInit
    /\ RaceInit
    /\ DigitIdle
    /\ JsonIdle
    /\ CursorInit
    /\ FilterIdle
    /\ event \in EventIn
    /\ converted = NoConversion
    /\ raised = NotRaised
\* ev.get<bool>(ec)
GetBool ==
    \E ec_in \in EcIn :
        /\ converted' = Conversion("bool", ec_in, get_bool(event), 0,
                                   get_bool(event).val, <<>>)
        /\ UNCHANGED <<event, raised, visitor, decoder, surfaced, origin,
                       observed, sink_vars, filter_vars, bignum_vars,
                       race_vars, digit_vars, json_vars>>
\* ev.get<IntegerType>(ec)
GetInteger ==
    \E ec_in \in EcIn, T \in IntegerTypeIn :
        /\ converted' = Conversion(T, ec_in, get_integer(T, event),
                                   get_integer(T, event).val, FALSE, <<>>)
        /\ UNCHANGED <<event, raised, visitor, decoder, surfaced, origin,
                       observed, sink_vars, filter_vars, bignum_vars,
                       race_vars, digit_vars, json_vars>>
\* ev.get<string_view>(ec)
GetStringView ==
    \E ec_in \in EcIn :
        /\ converted' = Conversion("string_view", ec_in, get_string_view(event),
                                   0, FALSE, get_string_view(event).val)
        /\ UNCHANGED <<event, raised, visitor, decoder, surfaced, origin,
                       observed, sink_vars, filter_vars, bignum_vars,
                       race_vars, digit_vars, json_vars>>
\* ev.get<byte_string_view>(ec)
GetByteStringView ==
    \E ec_in \in EcIn :
        /\ converted' = Conversion("byte_string_view", ec_in,
                                   get_byte_string_view(event), 0, FALSE,
                                   get_byte_string_view(event).val)
        /\ UNCHANGED <<event, raised, visitor, decoder, surfaced, origin,
                       observed, sink_vars, filter_vars, bignum_vars,
                       race_vars, digit_vars, json_vars>>

\* an array_expected that takes a begin_array only
array_expected_ArrayOnly(ev) ==
    IF ~(ev.type = "begin_array")
    THEN Converted("not_vector", 0)
    ELSE Converted("", 0)
\* array_expected(ec): ec = not_vector unless current() is a begin_array or
\* a byte_string_value
array_expected(ev) ==
    IF ~(ev.type = "begin_array" \/ ev.type = "byte_string_value")
    THEN Converted("not_vector", 0)
    ELSE Converted("", 0)
\* cursor.array_expected(ec), the current event of the cursor being event
ArrayExpected ==
    \E ec_in \in EcIn :
        /\ converted' = Conversion("array", ec_in, array_expected(event), 0,
                                   FALSE, <<>>)
        /\ UNCHANGED <<event, raised, visitor, decoder, surfaced, origin,
                       observed, sink_vars, filter_vars, bignum_vars,
                       race_vars, digit_vars, json_vars>>
\* ev.get<T>(), the throwing style
Get ==
    \E T \in TargetIn :
        /\ raised' = Raised(T, get(get_ec(T, event)))
        /\ UNCHANGED <<event, converted, visitor, decoder, surfaced, origin,
                       observed, sink_vars, filter_vars, bignum_vars,
                       race_vars, digit_vars, json_vars>>

NextEvent ==
    \/ GetBool
    \/ GetInteger
    \/ GetStringView
    \/ GetByteStringView
    \/ ArrayExpected
    \/ Get

SpecEvent == InitEvent /\ [][NextEvent]_vars

\* ------------------------------------------------------------------------
\* json_decoder (json_decoder.hpp): a content handler that builds a Json
\* value on a stack of items, stack_offsets_ holding the position and the
\* type of every open structure above the root entry
\* ------------------------------------------------------------------------
MaxDocCalls == 5
\* the longest document after which the caller begins the next one without
\* having taken the result
MaxKeptCalls == 1
\* stack_item(name) and stack_item(value): the member not given is
\* default-constructed
Item(name, value) == [name_ |-> name, value_ |-> value]
NamedItem(name) == Item(name, JsonDefault)
ValueItem(value) == Item("", value)
structure_offset(offset, type) == [offset_ |-> offset, type_ |-> type]
\* v.back()
Back(v) == v[Len(v)]
\* array::push_back and object::insert (not in json_decoder.hpp): the
\* elements, and the members made of name and value, are kept in the order
\* they are given in
array_push_back(j, value) ==
    [j EXCEPT !.items = Append(j.items, ValueItem(value))]
object_insert(j, members) == [j EXCEPT !.items = j.items \o members]
\* the switch of every do_*_value, push_object and push_array: inside an
\* object the value goes into the item on top of the stack, the one do_name
\* has pushed; otherwise it is pushed
put_value(d, value) ==
    IF Back(d.stack_offsets_).type_ = "object_t"
    THEN [d EXCEPT !.stack_[Len(d.stack_)].value_ = value]
    ELSE [d EXCEPT !.stack_ = Append(d.stack_, ValueItem(value))]
\* stack_offsets_.push_back({stack_.size()-1, type})
open_structure(d, type) ==
    [d EXCEPT !.stack_offsets_ =
        Append(d.stack_offsets_, structure_offset(Len(d.stack_) - 1, type))]
push_object(d) ==
    open_structure(put_value(d, Json("object", 0, "", <<>>)), "object_t")
push_array(d) ==
    open_structure(put_value(d, Json("array", 0, "", <<>>)), "array_t")
\* pop_object, pop_array: stack_.erase(begin + offset_ + 1, end);
\* stack_offsets_.pop_back()
pop_structure(d) ==
    [d EXCEPT !.stack_ = SubSeq(d.stack_, 1, Back(d.stack_offsets_).offset_ + 1),
              !.stack_offsets_ =
                  SubSeq(d.stack_offsets_, 1, Len(d.stack_offsets_) - 1)]
pop_object(d) == pop_structure(d)
pop_array(d) == pop_structure(d)
\* the array elements moved out of the items first .. last
RECURSIVE moved_values(_, _)
moved_values(j, items) ==
    IF items = <<>> THEN j
    ELSE moved_values(array_push_back(j, Head(items).value_), Tail(items))
\* an end_structure that takes the children from the top of the stack down
RECURSIVE moved_values_Reversed(_, _)
moved_values_Reversed(j, items) ==
    IF items = <<>> THEN j
    ELSE moved_values_Reversed(array_push_back(j, Back(items).value_),
                               SubSeq(items, 1, Len(items) - 1))
end_structure_Reversed(d) ==
    LET structure_index == Back(d.stack_offsets_).offset_
        children == SubSeq(d.stack_, structure_index + 2, Len(d.stack_))
    IN  IF Back(d.stack_offsets_).type_ = "object_t"
        THEN [d EXCEPT !.stack_[structure_index + 1].value_ =
                 object_insert(d.stack_[structure_index + 1].value_, children)]
        ELSE [d EXCEPT !.stack_[structure_index + 1].value_ =
                 moved_values_Reversed(d.stack_[structure_index + 1].value_,
                                       children)]
\* end_structure: the items above stack_[structure_index] are moved into its
\* value, as members (object_t) or as elements (default)
end_structure(d) ==
    LET structure_index == Back(d.stack_offsets_).offset_
        children == SubSeq(d.stack_, structure_index + 2, Len(d.stack_))
    IN  IF Back(d.stack_offsets_).type_ = "object_t"
        THEN [d EXCEPT !.stack_[structure_index + 1].value_ =
                 object_insert(d.stack_[structure_index + 1].value_, children)]
        ELSE [d EXCEPT !.stack_[structure_index + 1].value_ =
                 moved_values(d.stack_[structure_index + 1].value_, children)]
do_begin_document(d) ==
    [d EXCEPT !.stack_offsets_ = <<structure_offset(0, "root_t")>>,
              !.stack_ = <<>>, !.is_valid_ = FALSE]
\* a do_end_document that takes whatever is on top of the stack
do_end_document_AnySize(d) ==
    IF Len(d.stack_) >= 1
    THEN [d EXCEPT !.result_ = d.stack_[1].value_,
                   !.stack_ = SubSeq(d.stack_, 1, Len(d.stack_) - 1),
                   !.is_valid_ = TRUE]
    ELSE d
\* do_end_document: if (stack_.size() == 1) { result_.swap(front.value_);
\* stack_.pop_back(); is_valid_ = true; }
do_end_document(d) ==
    IF Len(d.stack_) = 1
    THEN [d EXCEPT !.result_ = d.stack_[1].value_, !.stack_ = <<>>,
                   !.is_valid_ = TRUE]
    ELSE d
do_begin_object(d) == push_object(d)
do_end_object(d) == pop_object(end_structure(d))
do_begin_array(d) == push_array(d)
do_end_array(d) == pop_array(end_structure(d))
do_name(d, name) == [d EXCEPT !.stack_ = Append(d.stack_, NamedItem(name))]
do_string_value(d, val) == put_value(d, Json("string", 0, val, <<>>))
do_uint64_value(d, value) == put_value(d, Json("uint64", value, "", <<>>))
do_bool(d, value) == put_value(d, Json("bool", B2I(value), "", <<>>))
do_null_value(d) == put_value(d, Json("null", 0, "", <<>>))
is_valid(d) == d.is_valid_
\* get_result: is_valid_ = false; return std::move(result_); the moved-from
\* result_ is taken to be a default Json
get_result(d) ==
    [d |-> [d EXCEPT !.is_valid_ = FALSE, !.result_ = JsonDefault],
     result |-> d.result_]

\* The caller of the decoder is a parser: between do_begin_document and
\* do_end_document it reports values, each a scalar or a structure whose
\* begin and end match, with a name before every member of an object; it
\* may report no value or several at the root.  doc.open holds the kinds of
\* the structures that are open and doc.named tells that a name awaits its
\* value; doc.calls is the log of the calls of the document.
NameIn == {"a", "b"}
Called(op, name, value) == [op |-> op, name |-> name, value |-> value]
Logged(d, c) == [d EXCEPT !.calls = Append(d.calls, c)]
\* a value may be reported here
ValueExpected ==
    /\ doc.phase = "open"
    /\ Len(doc.calls) < MaxDocCalls
    /\ (doc.open # <<>> /\ Back(doc.open) = "object") => doc.named
ValueLogged(c) == [Logged(doc, c) EXCEPT !.named = FALSE]
InitJson ==
    /\ BignumInit
    /\ RaceInit
    /\ DigitIdle
    /\ CursorInit
    /\ FilterIdle
    /\ EventIdle
    /\ JsonIdle
DoBeginDocument ==
    /\ \/ doc.phase = "none"
       \/ doc.phase = "closed" /\ (doc.got \/ Len(doc.calls) <= MaxKeptCalls)
    /\ json' = do_begin_document(json)
    /\ doc' = [phase |-> "open", calls |-> <<>>, open |-> <<>>,
               named |-> FALSE, got |-> FALSE]
    /\ UNCHANGED <<bignum_vars, race_vars, visitor, decoder, surfaced, origin,
                   observed, sink_vars, filter_vars, event_vars, digit_vars>>
DoEndDocument ==
    /\ doc.phase = "open"
    /\ doc.open = <<>>
    /\ json' = do_end_document(json)
    /\ doc' = [doc EXCEPT !.phase = "closed"]
    /\ UNCHANGED <<bignum_vars, race_vars, visitor, decoder, surfaced, origin,
                   observed, sink_vars, filter_vars, event_vars, digit_vars>>
DoBeginObject ==
    /\ ValueExpected
    /\ json' = do_begin_object(json)
    /\ doc' = [ValueLogged(Called("begin_object", "", JsonDefault))
                  EXCEPT !.open = Append(doc.open, "object")]
    /\ UNCHANGED <<bignum_vars, race_vars, visitor, decoder, surfaced, origin,
                   observed, sink_vars, filter_vars, event_vars, digit_vars>>
DoEndObject ==
    /\ doc.phase = "open"
    /\ doc.open # <<>>
    /\ Back(doc.open) = "object"
    /\ ~doc.named
    /\ json' = do_end_object(json)
    /\ doc' = [Logged(doc, Called("end_object", "", JsonDefault))
                  EXCEPT !.open = SubSeq(doc.open, 1, Len(doc.open) - 1)]
    /\ UNCHANGED <<bignum_vars, race_vars, visitor, decoder, surfaced, origin,
                   observed, sink_vars, filter_vars, event_vars, digit_vars>>
DoBeginArray ==
    /\ ValueExpected
    /\ json' = do_begin_array(json)
    /\ doc' = [ValueLogged(Called("begin_array", "", JsonDefault))
                  EXCEPT !.open = Append(doc.open, "array")]
    /\ UNCHANGED <<bignum_vars, race_vars, visitor, decoder, surfaced, origin,
                   observed, sink_vars, filter_vars, event_vars, digit_vars>>
DoEndArray ==
    /\ doc.phase = "open"
    /\ doc.open # <<>>
    /\ Back(doc.open) = "array"
    /\ json' = do_end_array(json)
    /\ doc' = [Logged(doc, Called("end_array", "", JsonDefault))
                  EXCEPT !.open = SubSeq(doc.open, 1, Len(doc.open) - 1)]
    /\ UNCHANGED <<bignum_vars, race_vars, visitor, decoder, surfaced, origin,
                   observed, sink_vars, filter_vars, event_vars, digit_vars>>
DoName ==
    \E name \in NameIn :
        /\ doc.phase = "open"
        /\ Len(doc.calls) < MaxDocCalls
        /\ doc.open # <<>>
        /\ Back(doc.open) = "object"
        /\ ~doc.named
        /\ json' = do_name(json, name)
        /\ doc' = [Logged(doc, Called("name", name, JsonDefault))
                      EXCEPT !.named = TRUE]
        /\ UNCHANGED <<bignum_vars, race_vars, visitor, decoder, surfaced,
                       origin, observed, sink_vars, filter_vars, event_vars,
                       digit_vars>>
DoStringValue ==
    /\ ValueExpected
    /\ json' = do_string_value(json, "s")
    /\ doc' = ValueLogged(Called("value", "", Json("string", 0, "s", <<>>)))
    /\ UNCHANGED <<bignum_vars, race_vars, visitor, decoder, surfaced, origin,
                   observed, sink_vars, filter_vars, event_vars, digit_vars>>
DoUint64Value ==
    /\ ValueExpected
    /\ json' = do_uint64_value(json, 7)
    /\ doc' = ValueLogged(Called("value", "", Json("uint64", 7, "", <<>>)))
    /\ UNCHANGED <<bignum_vars, race_vars, visitor, decoder, surfaced, origin,
                   observed, sink_vars, filter_vars, event_vars, digit_vars>>
DoBool ==
    /\ ValueExpected
    /\ json' = do_bool(json, TRUE)
    /\ doc' = ValueLogged(Called("value", "", Json("bool", 1, "", <<>>)))
    /\ UNCHANGED <<bignum_vars, race_vars, visitor, decoder, surfaced, origin,
                   observed, sink_vars, filter_vars, event_vars, digit_vars>>
DoNullValue ==
    /\ ValueExpected
    /\ json' = do_null_value(json)
    /\ doc' = ValueLogged(Called("value", "", Json("null", 0, "", <<>>)))
    /\ UNCHANGED <<bignum_vars, race_vars, visitor, decoder, surfaced, origin,
                   observed, sink_vars, filter_vars, event_vars, digit_vars>>
GetResult ==
    /\ doc.phase = "closed"
    /\ ~doc.got
    /\ json' = get_result(json).d
    /\ doc' = [doc EXCEPT !.got = TRUE]
    /\ UNCHANGED <<bignum_vars, race_vars, visitor, decoder, surfaced, origin,
                   observed, sink_vars, filter_vars, event_vars, digit_vars>>

NextJson ==
    \/ DoBeginDocument \/ DoEndDocument
    \/ DoBeginObject \/ DoEndObject \/ DoBeginArray \/ DoEndArray
    \/ DoName \/ DoStringValue \/ DoUint64Value \/ DoBool \/ DoNullValue
    \/ GetResult

SpecJson == InitJson /\ [][NextJson]_vars

\* ------------------------------------------------------------------------
\* Properties
\* ------------------------------------------------------------------------
\* bignum(0), the value every zero is compared with
Zero == bignum_i32(0)
\* the objects the program holds: the operands and the last results
Held == {reg.a, reg.b, out.res, out.res2}
DivOps == {"div", "mod", "divmod", "muldiv"}

\* C1 (unique zero): every bignum produced by a constructor or an operator
\* that has length 0 has neg_ = FALSE, and so compares equal to bignum(0).
C1_UniqueZero ==
    \A x \in Held : length(x) = 0 => (~x.neg_ /\ compare(x, Zero) = 0)

\* C2 (canonical length): every bignum produced by a constructor or an
\* operator has a non-zero most significant digit when its length is
\* greater than 0, and length 0 exactly when its magnitude is 0.
C2_CanonicalLength ==
    \A x \in Held :
        /\ length(x) > 0 => D(x, length(x) - 1) # 0
        /\ length(x) = 0 <=> MagOf(x.data_) = 0

\* C3 (division identity): for b # 0 the quotient q = a / b and the
\* remainder r = a % b are returned and satisfy a = q * b + r; the sign of
\* a non-zero q is the XOR of the operand signs; r compares equal to
\* bignum(0) or has the sign of a.
C3_DivisionIdentity ==
    (out.op = "divmod" /\ length(reg.b) # 0) =>
        /\ out.st = "ok"
        /\ compare(PlusEq(TimesEq(out.res, reg.b), out.res2), reg.a) = 0
        /\ length(out.res) # 0 => out.res.neg_ = (reg.a.neg_ # reg.b.neg_)
        /\ IF length(out.res2) = 0 THEN compare(out.res2, Zero) = 0
           ELSE out.res2.neg_ = reg.a.neg_

\* C4 (division by zero): a / b and a % b with a divisor of length 0 raise
\* the zero-divide fault and leave the dividend, which is also the output
\* operand, with the value, sign and length it had.
C4_ZeroDivideKeepsDividend ==
    (out.op \in {"div", "mod"} /\ length(reg.b) = 0) =>
        (out.st = "zero_divide" /\ out.res = reg.a)
\* a negative two-digit dividend divided by a zero of length 0
C4_Witness ==
    /\ out.op = "div"
    /\ length(reg.b) = 0
    /\ length(reg.a) = 2
    /\ reg.a.neg_
    /\ out.st = "zero_divide"

\* C5 (totality): every operation other than a division by a divisor of
\* length 0 terminates and returns a value without raising a fault.
C5_Total ==
    (~Idle /\ ~(out.op \in DivOps /\ length(reg.b) = 0)) => out.st = "ok"

\* C6 (add/subtract inverse): for all a and b, (a + b) - b compares equal
\* to a.
C6_AddSubInverse == out.op = "addsub" => compare(out.res, reg.a) = 0

\* C7 (commutative multiplication): for all a and b, a * b compares equal
\* to b * a on each of the three paths of operator*=, and the sign of a
\* non-zero product is the XOR of the operand signs.
C7_MulCommutes ==
    out.op = "mul" =>
        /\ compare(out.res, out.res2) = 0
        /\ length(out.res) # 0 => out.res.neg_ = (reg.a.neg_ # reg.b.neg_)
        /\ length(out.res2) # 0 => out.res2.neg_ = (reg.a.neg_ # reg.b.neg_)
\* a product of two-digit operands of different signs (the column path)
C7_Witness ==
    /\ out.op = "mul"
    /\ length(reg.a) = 2
    /\ length(reg.b) = 2
    /\ reg.a.neg_
    /\ ~reg.b.neg_
    /\ length(out.res) = 4
    /\ out.res.neg_

\* C8 (multiply/divide inverse): for all a and b with b # 0, (a * b) / b
\* is returned and compares equal to a.
C8_MulDivInverse ==
    (out.op = "muldiv" /\ length(reg.b) # 0) =>
        (out.st = "ok" /\ compare(out.res, reg.a) = 0)

\* C9 (shift round trip): for every a and every k >= 0, (a << k) >> k
\* compares equal to a.
C9_ShiftRoundTrip == out.op = "shlshr" => compare(out.res, reg.a) = 0

\* C10 (decimal round trip): for every bignum x, the bignum constructed
\* from the decimal string to_string(x) compares equal to x.
C10_DecimalRoundTrip ==
    out.op = "roundtrip" => (out.st = "ok" /\ compare(out.res, reg.a) = 0)

\* the decimal digits of the magnitude held in the base-Base digits s, by
\* short division by 10 from the top digit: q is the quotient so far
RECURSIVE DivTen(_, _, _, _)
DivTen(s, i, r, q) ==
    IF i = 0 THEN [q |-> q, r |-> r]
    ELSE DivTen(s, i - 1, (r * Base + s[i]) % 10,
                [q EXCEPT ![i] = (r * Base + s[i]) \div 10])
RECURSIVE DecimalOf(_)
DecimalStep(t) == DecimalOf(t.q) \o <<DigitChar(t.r)>>
DecimalOf(s) ==
    IF \A i \in 1 .. Len(s) : s[i] = 0 THEN <<>>
    ELSE DecimalStep(DivTen(s, Len(s), 0, s))
\* the canonical decimal string of the value of x
CanonicalDecimal(x) ==
    IF DecimalOf(x.data_) = <<>> THEN <<"0">>
    ELSE (IF x.neg_ THEN <<"-">> ELSE <<>>) \o DecimalOf(x.data_)

\* C11 (canonical output): to_string returns, for every bignum, "0" for
\* zero and otherwise an optional '-' (exactly when the value is negative)
\* followed by the decimal digits of the magnitude, no leading zero, the
\* zero digits inside every chunk kept.
C11_CanonicalString ==
    out.op = "to_string" => (out.st = "ok" /\ out.txt = CanonicalDecimal(reg.a))

\* a negative number of several chunks whose last chunk has a zero tens digit
C11_Witness ==
    /\ out.op = "to_string"
    /\ out.st = "ok"
    /\ reg.a.neg_
    /\ Len(out.txt) >= 4
    /\ out.txt[1] = "-"
    /\ out.txt[Len(out.txt) - 1] = "0"

\* x >= 0 as a mathematical integer
NonNegative(x) == ValueOf(x) >= 0
\* C12 (integer square root): for every bignum x >= 0, sqrt(x) returns the
\* floor root r, r*r <= x < (r+1)*(r+1), and sqrt(y*y) = y for every y >= 0.
C12_FloorRoot ==
    /\ (out.op = "sqrt" /\ NonNegative(reg.a)) =>
           /\ out.st = "ok"
           /\ ValueOf(out.res) >= 0
           /\ ValueOf(out.res) * ValueOf(out.res) <= ValueOf(reg.a)
           /\ ValueOf(reg.a) < (ValueOf(out.res) + 1) * (ValueOf(out.res) + 1)
    /\ (out.op = "sqrtsq" /\ NonNegative(reg.a)) =>
           (out.st = "ok" /\ ValueOf(out.res) = ValueOf(reg.a))

\* the sign of an integer
Sign(n) == IF n < 0 THEN 0 - 1 ELSE IF n > 0 THEN 1 ELSE 0
\* C13 (three-way compare): compare(x, y) returns exactly -1, 0 or +1: -1
\* when x < y, 0 when x = y and +1 when x > y as mathematical integers.
C13_CompareIsSign ==
    out.op = "compare" => out.cmp = Sign(ValueOf(reg.a) - ValueOf(reg.b))

\* the big-endian base-256 value of a byte sequence
RECURSIVE BigEndian256(_)
BigEndian256(bs) ==
    IF bs = <<>> THEN 0
    ELSE 256 * BigEndian256(SubSeq(bs, 1, Len(bs) - 1)) + bs[Len(bs)]
\* C14 (signed binary digits): the bignum constructed from (sign, bytes) has
\* the magnitude sum of bytes[i] * 256^(n-1-i) and is negative exactly when
\* sign = -1.
C14_BytesBase256 ==
    out.op = "bytes" =>
        /\ MagOf(out.res.data_) = BigEndian256(out.txt)
        /\ out.res.neg_ = (out.cmp = 0 - 1)

\* C15 (race on the cached pair): with two or more threads in to_string at
\* once, in every interleaving of the initialisation loop with the reads of
\* p10 and ip10, every call returns the decimal string it returns alone.
C15_RaceFree ==
    \A t \in Threads :
        thread[t].pc = "done" =>
            /\ thread[t].res.st = "ok"
            /\ thread[t].res.str = CanonicalDecimal(thread[t].x)

\* the cursor has nothing more to show: no expansion is pending and the
\* decoder has pushed all its calls
Finished == ~in_available(visitor) /\ decoder.pos > Len(decoder.calls)
\* the scalar event of an element of a typed array, by element family
FamilyOf(kind) ==
    IF kind \in {"uint8", "uint16", "uint32", "uint64"} THEN "uint64_value"
    ELSE IF kind \in {"int8", "int16", "int32", "int64"} THEN "int64_value"
    ELSE IF kind = "half" THEN "half_value"
    ELSE "double_value"
\* the events one call of the decoder stands for
EventsOf(c) ==
    IF c.op = "typed_array"
    THEN <<Ev("begin_array", NoLength, c.tag)>>
         \o [i \in 1 .. Len(c.elems) |-> Ev(FamilyOf(c.kind), c.elems[i], "none")]
         \o <<Ev("end_array", 0, "none")>>
    ELSE IF c.op = "begin_multi_dim"
    THEN <<Ev("begin_array", 2, c.tag), Ev("begin_array", Len(c.elems), "none")>>
         \o [i \in 1 .. Len(c.elems) |-> Ev("uint64_value", c.elems[i], "none")]
         \o <<Ev("end_array", 0, "none")>>
    ELSE IF c.op = "end_multi_dim" THEN <<Ev("end_array", 0, "none")>>
    ELSE IF c.op \in {"begin_array", "begin_object"}
    THEN <<Ev(c.op, NoLength, c.tag)>>
    ELSE <<Ev(c.op, c.val, c.tag)>>
\* the events of a push sequence, every expansion at the place of its call
RECURSIVE Expanded(_)
Expanded(calls) ==
    IF calls = <<>> THEN <<>> ELSE EventsOf(Head(calls)) \o Expanded(Tail(calls))
IsPrefix(a, b) == Len(a) <= Len(b) /\ a = SubSeq(b, 1, Len(a))
HasOp(calls, op) == \E i \in 1 .. Len(calls) : calls[i].op = op
\* what current() returned is the event of the visitor's construction or one
\* the cursor has shown
ReadIsShown ==
    \/ observed = Ev("null_value", 0, "none")
    \/ \E i \in 1 .. Len(surfaced) : observed = surfaced[i]

\* C16 (typed-array expansion): with the default predicate, a typed_array
\* call of count elements of any element kind surfaces as begin_array(tag),
\* the count elements in order as uint64 (unsigned), int64 (signed), half
\* (half) or double (f32, f64) events, then end_array, and current() reads
\* only what the cursor has shown.
C16_TypedArrayExpansion ==
    (/\ visitor.pred_ = "accept"
     /\ HasOp(decoder.calls, "typed_array")
     /\ ~HasOp(decoder.calls, "begin_multi_dim")) =>
        /\ IsPrefix(surfaced, Expanded(decoder.calls))
        /\ Finished => surfaced = Expanded(decoder.calls)
        /\ ReadIsShown

\* C17 (multi-dim expansion): with the default predicate, begin_multi_dim(
\* shape, tag) surfaces as begin_array(2, tag), begin_array(shape.len), one
\* uint64 per dimension in order, end_array; then the body comes from the
\* decoder and end_multi_dim surfaces as the final end_array.
C17_MultiDimExpansion ==
    (visitor.pred_ = "accept" /\ HasOp(decoder.calls, "begin_multi_dim")) =>
        /\ IsPrefix(surfaced, Expanded(decoder.calls))
        /\ Finished => surfaced = Expanded(decoder.calls)

\* C18 (delivery order): for every push sequence and every predicate, the
\* events the pulls surface are in the decoder's order, the events of an
\* expansion at the place of the call that started it.
C18_DeliveryOrder ==
    \A i \in 1 .. Len(origin) : \A j \in i .. Len(origin) : origin[i] <= origin[j]

\* the begin events of log[i ..] still open after it, given those open
\* before; <<"unmatched">> when an end event closes no begin of its kind
RECURSIVE OpenAfter(_, _, _)
OpenAfter(log, i, open) ==
    IF i > Len(log) THEN open
    ELSE IF log[i].type \in {"begin_array", "begin_object"}
    THEN OpenAfter(log, i + 1, Append(open, log[i].type))
    ELSE IF log[i].type \in {"end_array", "end_object"}
    THEN IF /\ open # <<>>
            /\ open[Len(open)] = (IF log[i].type = "end_array"
                                   THEN "begin_array" ELSE "begin_object")
         THEN OpenAfter(log, i + 1, SubSeq(open, 1, Len(open) - 1))
         ELSE <<"unmatched">>
    ELSE OpenAfter(log, i + 1, open)
\* C19 (structural balance): for a balanced push sequence the surfaced
\* events are balanced: no end event without an open begin of its kind, and
\* once as many events are surfaced as the input stands for, every begin is
\* closed.
C19_Balanced ==
    visitor.pred_ = "accept" =>
        /\ OpenAfter(surfaced, 1, <<>>) # <<"unmatched">>
        /\ Len(surfaced) >= Len(Expanded(decoder.calls)) =>
               OpenAfter(surfaced, 1, <<>>) = <<>>

ShapeSet(v) == v.shape_ # <<>>
\* C21 (expansion-state consistency): in every state reachable through
\* visitor callbacks, send_available, dump and reset, at most one of the
\* typed-array view and the shape view is set, and the visitor is idle
\* (in_available() false) exactly when neither view is set.
C21_ExpansionConsistent ==
    /\ ~(is_typed_array(visitor) /\ ShapeSet(visitor))
    /\ ~in_available(visitor) <=> (~is_typed_array(visitor) /\ ~ShapeSet(visitor))

\* the event a call of the decoder is stored as by the callback it enters
StoredEvent(c) ==
    IF c.op = "typed_array" THEN Ev("begin_array", NoLength, c.tag)
    ELSE IF c.op = "begin_multi_dim" THEN Ev("begin_array", 2, c.tag)
    ELSE IF c.op = "end_multi_dim" THEN Ev("end_array", 0, "none")
    ELSE IF c.op \in {"begin_array", "begin_object"} THEN Ev(c.op, NoLength, c.tag)
    ELSE IF c.op \in {"end_array", "end_object"} THEN Ev(c.op, 0, "none")
    ELSE IF c.op \in {"string_value", "byte_string_value"}
    THEN EvView(c.op, c.str, c.tag)
    ELSE IF c.op = "byte_string_ext" THEN EvExt("byte_string_value", c.str, c.ext)
    ELSE Ev(c.op, c.val, c.tag)
Accepts(p, c) == pred(p, StoredEvent(c))
\* the decoder has made the calls from .. to - 1: all but the last were told
\* to continue, the last is the current event, and it is shown to the caller
\* exactly when the predicate accepts it
Pushed(p, calls, from, to, v, shown_before, shown) ==
    /\ \A k \in from .. to - 2 : ~Accepts(p, calls[k])
    /\ v.event_ = StoredEvent(calls[to - 1])
    /\ IF Accepts(p, calls[to - 1])
       THEN shown = Append(shown_before, StoredEvent(calls[to - 1]))
       ELSE shown = shown_before /\ to = Len(calls) + 1
    /\ p = "accept" => to = from + 1
\* C22 (stop-signal protocol): every visitor callback stores its call as the
\* current event and answers the decoder with the negation of the predicate:
\* the decoder goes on after a rejected event and stops at the first accepted
\* one, which is the event shown; with the default predicate it stops after
\* exactly one call.
C22_StopSignal ==
    [][decoder'.pos > decoder.pos =>
          Pushed(visitor.pred_, decoder.calls, decoder.pos, decoder'.pos,
                 visitor', surfaced, surfaced')]_vars
\* the decoder went over a rejected call and stopped at the accepted one
C22_Witness ==
    /\ visitor.pred_ = "uint64_only"
    /\ origin = <<2>>
    /\ visitor.event_.type = "uint64_value"
    /\ decoder.pos = 3

\* the visitor is at the start of a typed-array expansion: the current
\* event is the begin_array of visit_typed_array and no element was emitted
AtExpansionStart(v) ==
    /\ v.state_ = "typed_array"
    /\ is_typed_array(v)
    /\ v.index_ = 0
    /\ v.event_.type = "begin_array"
\* C23 (dump at the start of a typed-array expansion): for every element
\* kind the sink receives exactly one call, the bulk typed_array with the
\* captured span, no begin_array, element or end_array call, and the visitor
\* is idle afterwards, so that the next pull drives the decoder.
C23_BulkDump ==
    [][(Dump /\ AtExpansionStart(visitor)) =>
          /\ sink' = <<SinkSpan("typed_array", visitor.data_)>>
          /\ ~in_available(visitor')
          /\ ~is_typed_array(visitor')]_vars
\* a span of two doubles was handed over in bulk
C23_Witness ==
    /\ AtExpansionStart(dumped.v)
    /\ dumped.v.data_ = typed_array_view("double", <<7, 9>>)
    /\ Len(sink) = 1
    /\ sink[1].op = "typed_array"
    /\ ~in_available(visitor)

\* the visitor is in the middle of a typed-array expansion
MidExpansion(v) ==
    /\ v.state_ = "typed_array"
    /\ is_typed_array(v)
    /\ v.index_ # 0
\* the scalar calls for the elements from .. count - 1 of the view, in order
ElementCalls(data, from) ==
    [k \in 1 .. Len(data.elems) - from |->
        SinkCall(FamilyOf(data.type), data.elems[from + k], "none")]
\* C24 (dump in the middle of a typed-array expansion, index # 0, with a
\* sink that never stops): for every element kind the sink receives the
\* current element, then every remaining element index .. count - 1 exactly
\* once and in order through its scalar methods, then end_array, and the
\* visitor is idle with index 0 afterwards.
C24_MidDump ==
    [][(Dump /\ MidExpansion(visitor) /\ dumped'.patience = NeverStops) =>
          /\ sink' = <<SinkCall(visitor.event_.type, visitor.event_.val,
                                visitor.event_.tag)>>
                      \o ElementCalls(visitor.data_, visitor.index_)
                      \o <<SinkCall("end_array", 0, "none")>>
          /\ visitor.event_ = Ev(FamilyOf(visitor.data_.type),
                                 visitor.data_.elems[visitor.index_], "none")
             => sink' = ElementCalls(visitor.data_, visitor.index_ - 1)
                        \o <<SinkCall("end_array", 0, "none")>>
          /\ ~in_available(visitor')
          /\ ~is_typed_array(visitor')
          /\ visitor'.index_ = 0]_vars
\* after the first of two doubles was pulled, dump handed over both and the
\* end of the array
C24_Witness ==
    /\ MidExpansion(dumped.v)
    /\ dumped.patience = NeverStops
    /\ dumped.v.index_ = 1
    /\ dumped.v.data_ = typed_array_view("double", <<7, 9>>)
    /\ Len(sink) = 3
    /\ sink[2] = SinkCall("double_value", 9, "none")
    /\ ~in_available(visitor)

\* the call carries what the event holds: its kind, its value (the length
\* of a begin event left aside), its view, its tag and its ext_tag
Carries(call, ev) ==
    /\ call.op = ev.type
    /\ ev.type \notin {"begin_array", "begin_object"} => call.val = ev.val
    /\ call.str = ev.str
    /\ call.tag = ev.tag
    /\ call.ext = ev.ext
\* C25 (forwarding preserves annotations): for every captured event, dump
\* delivers to the sink a call of the same kind with the same payload, the
\* same semantic tag and, for a byte string captured with an extension tag,
\* the same ext_tag; a typed array forwarded in bulk carries the tag of its
\* originating call, which is the tag of the begin_array it was stored as.
C25_ForwardPreserves ==
    [][Dump =>
          /\ ~is_typed_array(visitor) =>
                 Len(sink') = 1 /\ Carries(sink'[1], visitor.event_)
          /\ AtExpansionStart(visitor) =>
                 Len(sink') = 1 /\ sink'[1].tag = visitor.event_.tag]_vars

\* the view with predicate p rests where it should: its cursor is done or p
\* accepts the current event, p rejects every event the operation passed
\* over, and a next() has left the event it began at
Rests(w, p) ==
    /\ cursor_done(w.c) \/ pred_(p, cursor_current(w.c))
    /\ \A k \in w.from + 1 .. w.c.pos - 1 : ~pred_(p, w.c.evs[k])
    /\ w.from > 0 => w.c.pos > w.from
\* C26 (filter view postcondition): right after the construction and after
\* every next() of a filter view that did not fail, the underlying cursor is
\* done() or the predicate accepts current(); the view never rests on a
\* rejected event, and it has advanced the cursor by the least number of
\* steps, passing over rejected events only.
C26_FilterRests ==
    /\ single.ec = "" => Rests(single, preds[1] \cup preds[2])
    /\ composed.ec = "" =>
           cursor_done(composed.c) \/ pred_(preds[2], cursor_current(composed.c))
\* a next() passed over a rejected event and rests on an accepted one
C26_Witness ==
    /\ single.ec = ""
    /\ single.from > 0
    /\ single.c.pos = single.from + 2
    /\ ~cursor_done(single.c)
    /\ ~pred_(preds[1] \cup preds[2], single.c.evs[single.from + 1])

\* C27 (filter composition): for a cursor over any event sequence and any
\* two stateless predicates p and q, the current events seen through
\* (cursor | p) | q are those seen through one filter view with predicate
\* p /\ q, in the same order, and both views report done() at the same point
\* (and fail at the same point when the cursor fails).
C27_Composition ==
    /\ composed.seen = single.seen
    /\ cursor_done(composed.c) = cursor_done(single.c)
    /\ composed.c.pos = single.c.pos
    /\ composed.ec = single.ec
\* two different predicates, neither of which accepts everything, have let
\* part of the events through, and the cursor is done
C27_Witness ==
    /\ preds[1] # {} /\ preds[2] # {} /\ preds[1] # preds[2]
    /\ cursor_done(composed.c)
    /\ composed.seen # <<>>
    /\ Len(composed.seen) < Len(composed.c.evs)
    /\ \E k \in 1 .. Len(composed.c.evs) :
           pred_(preds[1], composed.c.evs[k]) /\ ~pred_(preds[2], composed.c.evs[k])

\* the conversion succeeded: it left the error_code as it was
Succeeded == converted.ec = converted.ec_in
\* the kinds of event that hold no scalar
Structural == {"begin_array", "end_array", "begin_object", "end_object"}
\* C28 (boolean conversion): get<bool>(ec) returns the stored value for a
\* bool event, value # 0 for the other numeric kinds (int64, uint64, half,
\* double), and sets ec = not_bool for string, byte_string, null and the
\* structural kinds.
C28_BoolConversion ==
    converted.target = "bool" =>
        IF event.type \in {"bool_value", "int64_value", "uint64_value",
                           "double_value"}
        THEN Succeeded /\ converted.flag = (event.val # 0)
        ELSE IF event.type = "half_value"
        THEN Succeeded /\ converted.flag = (decode_half(event.val) # 0)
        ELSE converted.ec = "not_bool"

\* a decimal string: an optional minus sign, then one digit or more; and
\* the integer it denotes
Unsigned(str) == IF str # <<>> /\ Head(str) = "-" THEN Tail(str) ELSE str
IsDecimal(str) ==
    /\ Unsigned(str) # <<>>
    /\ \A i \in 1 .. Len(Unsigned(str)) : IsDigitChar(Unsigned(str)[i])
Denoted(str) ==
    IF Unsigned(str) = str THEN decimal_value(str, 0)
    ELSE 0 - decimal_value(Unsigned(str), 0)
\* the conversion returned the integer x, which the type asked for holds,
\* and left the error_code as it was
Returned_(x) == Holds(converted.target, x) => Succeeded /\ converted.int = x
\* C29 (integer conversion): get<IntegerType>(ec) returns the numeric value
\* truncated toward zero for int64, uint64, half (the decoded half float, not
\* its bit pattern) and double events, 0 or 1 for bool events, the parsed
\* value for decimal strings; it sets ec = not_integer for unparsable strings
\* and for null, byte_string and the structural kinds, and leaves ec
\* untouched on success.
C29_IntegerConversion ==
    converted.target \in IntegerTypeIn =>
        IF event.type \in {"int64_value", "uint64_value"}
        THEN Returned_(event.val)
        ELSE IF event.type = "half_value"
        THEN Returned_(truncated(decode_half(event.val)))
        ELSE IF event.type = "double_value" THEN Returned_(truncated(event.val))
        ELSE IF event.type = "bool_value"
        THEN Returned_(IF event.val # 0 THEN 1 ELSE 0)
        ELSE IF event.type = "string_value" /\ IsDecimal(event.str)
        THEN Returned_(Denoted(event.str))
        ELSE converted.ec = "not_integer"

\* get<string_view>(ec) succeeds only for a string event and otherwise sets
\* not_string_view
StringViewOfString ==
    converted.target = "string_view" =>
        IF event.type = "string_value"
        THEN Succeeded /\ converted.view = event.str
        ELSE converted.ec = "not_string_view"
\* C30 (view conversions), as claimed: get<string_view>(ec) succeeds only
\* for kind string and otherwise sets not_string_view; get<byte_string_view>
\* (ec) succeeds for kind byte_string and also for kind string carrying tag
\* base16, base64 or base64url, and sets not_byte_string_view for every
\* other kind.
C30_ViewConversions ==
    /\ StringViewOfString
    /\ converted.target = "byte_string_view" =>
           IF event.type = "byte_string_value"
           THEN Succeeded /\ converted.view = event.str
           ELSE IF event.type = "string_value"
                   /\ event.tag \in {"base16", "base64", "base64url"}
           THEN Succeeded
           ELSE converted.ec = "not_byte_string_view"
\* C30 (view conversions), amended: get<string_view>(ec) succeeds only for
\* kind string and otherwise sets not_string_view; get<byte_string_view>(ec)
\* succeeds only for kind byte_string, returning the bytes of the event, and
\* sets not_byte_string_view for every other kind, a string carrying tag
\* base16, base64 or base64url included.
C30_ViewsOfOwnKind ==
    /\ StringViewOfString
    /\ converted.target = "byte_string_view" =>
           IF event.type = "byte_string_value"
           THEN Succeeded /\ converted.view = event.str
           ELSE converted.ec = "not_byte_string_view" /\ converted.view = <<>>
\* a byte_string_view was asked of a string tagged base16 and refused
C30_Witness ==
    /\ converted.target = "byte_string_view"
    /\ event.type = "string_value"
    /\ event.tag = "base16"
    /\ converted.ec = "not_byte_string_view"

\* C31: array_expected(ec) sets ec to not_vector exactly when the current
\* event is neither a begin_array nor a byte_string_value; when it is one of
\* the two, ec keeps the code it held before the call, and in both cases the
\* current event of the cursor is the one it was before the call.
C31_ArrayExpected ==
    [][ArrayExpected =>
           /\ event' = event
           /\ IF event.type \in {"begin_array", "byte_string_value"}
              THEN converted'.ec = converted'.ec_in
              ELSE converted'.ec = "not_vector"]_vars
\* array_expected has left an older code in place on a byte string
C31_Witness ==
    /\ converted.target = "array"
    /\ event.type = "byte_string_value"
    /\ converted.ec_in = "stale"
    /\ converted.ec = "stale"

\* C32: the two call styles agree.  When get<T>() and get<T>(ec) have both
\* been called for the same target type, the throwing call returned exactly
\* when the other one left its error code as it was, returned the same value
\* then, and threw the code the other one set otherwise; and no conversion
\* changes the event, so that both calls were made on the same event and a
\* further conversion can follow.
C32_StylesAgree ==
    /\ [](raised.target # "" /\ raised.target = converted.target =>
             /\ (raised.thrown = "") = Succeeded
             /\ ~Succeeded => raised.thrown = converted.ec
             /\ Succeeded =>
                    /\ raised.int = converted.int
                    /\ raised.flag = converted.flag
                    /\ raised.view = converted.view)
    /\ [][event' = event]_vars
\* both styles were asked for a boolean of a null event, and both failed
C32_Witness ==
    /\ raised.target = "bool"
    /\ converted.target = "bool"
    /\ event.type = "null_value"
    /\ raised.thrown = "not_bool"
    /\ converted.ec = "not_bool"

\* the call that captured the pending expansion, the number of times v was
\* found in o, and the pulls made since the capture: the pulls answered by
\* send_available on behalf of that call (the pull that captured it, which
\* only the accepting predicate ends at the capture, is not one of them)
Capture == expansion_call(decoder.calls, decoder.pos - 1)
RECURSIVE CountOf(_, _)
CountOf(o, v) ==
    IF o = <<>> THEN 0
    ELSE (IF o[Len(o)] = v THEN 1 ELSE 0) + CountOf(SubSeq(o, 1, Len(o) - 1), v)
PullsSinceCapture ==
    CountOf(origin, Capture) - (IF visitor.pred_ = "accept" THEN 1 ELSE 0)
\* the pulls that end the pending expansion: n + 1 for a typed array of n
\* elements, m + 2 for a shape of length m
PullsNeeded ==
    IF visitor.state_ = "typed_array" THEN Len(visitor.data_.elems) + 1
    ELSE Len(decoder.calls[Capture].elems) + 2
cursor_is_done == ~in_available(visitor) /\ decoder.pos > Len(decoder.calls)
\* C33: every expansion finishes.  While an expansion is pending fewer than
\* n + 1 pulls (typed array of n elements) or m + 2 pulls (shape of length
\* m) have been made since it was captured, so that the pull with that
\* number has returned the visitor to idle; a pending expansion is always
\* followed by an idle visitor, and a caller that keeps pulling reaches
\* done().
C33_ExpansionFinishes ==
    /\ [](in_available(visitor) => PullsSinceCapture < PullsNeeded)
    /\ (in_available(visitor) ~> ~in_available(visitor))
    /\ <>cursor_is_done
\* the same for the expansions of a typed array and of a shape that is not
\* empty
C33_NonEmptyShapeFinishes ==
    (\A i \in 1 .. Len(decoder.calls) :
         decoder.calls[i].op = "begin_multi_dim" => decoder.calls[i].elems # <<>>)
    => C33_ExpansionFinishes

\* the decimal string of an integer
RECURSIVE Digits10(_)
Digits10(n) ==
    IF n < 10 THEN <<DigitChar(n)>>
    ELSE Digits10(n \div 10) \o <<DigitChar(n % 10)>>
DecimalString(n) ==
    IF n < 0 THEN <<"-">> \o Digits10(0 - n) ELSE Digits10(n)
\* x has the value and the sign of the integer n, and compares equal (in
\* both directions) to the bignum of the decimal string of n
AsGiven(x, n) ==
    /\ ValueOf(x) = n
    /\ x.neg_ = (n < 0)
    /\ compare(x, bignum_str(DecimalString(n))) = 0
    /\ compare(bignum_str(DecimalString(n)), x) = 0
\* the step constructs the object r by the constructor result x
Constructs(r, x) == Idle /\ steps = 0 /\ reg' = [reg EXCEPT ![r] = x]
\* C34: a bignum constructed from an int32, uint32, int64 or uint64 has
\* exactly that integer's value and sign, is not negative when the argument
\* is unsigned, and compares equal to the bignum constructed from the
\* decimal string of the same value.
C34_FromPrimitive ==
    [][\A r \in Regs :
           /\ \A i \in I32In : Constructs(r, bignum_i32(i)) => AsGiven(reg'[r], i)
           /\ \A u \in U32In, g \in BOOLEAN :
                  Constructs(r, bignum_u32(u, g)) => AsGiven(reg'[r], u)
           /\ \A i \in I64In : Constructs(r, bignum_i64(i)) => AsGiven(reg'[r], i)
           /\ \A u \in U64In, g \in BOOLEAN :
                  Constructs(r, bignum_u64(u, g)) => AsGiven(reg'[r], u)]_vars
\* the same for the int32 constructor alone
C34_FromInt32 ==
    [][\A r \in Regs, i \in I32In :
           Constructs(r, bignum_i32(i)) => AsGiven(reg'[r], i)]_vars

\* C35: DDproduct is exact and the single-word path detects overflow.  For
\* all digits A and B DDproduct returns digits Hi and Lo with
\* Hi * Base + Lo = A * B; the product of two one-digit bignums has the
\* value A * B, in two digits exactly when A * B >= Base and in one digit
\* otherwise.
C35_ExactProduct ==
    /\ product.op = "DDproduct" =>
           /\ product.data[1] \in DigitIn
           /\ product.data[2] \in DigitIn
           /\ product.data[2] * Base + product.data[1] = operands.A * operands.B
    /\ product.op = "single" =>
           /\ MagOf(product.data) = operands.A * operands.B
           /\ (Len(product.data) = 2) = (operands.A * operands.B >= Base)
           /\ (Len(product.data) = 1) = (operands.A * operands.B < Base)
\* DDproduct has multiplied the two largest digits, whose middle terms carry
C35_Witness ==
    /\ product.op = "DDproduct"
    /\ operands = [A |-> max_basic_type, B |-> max_basic_type]
    /\ product.data = <<1, max_basic_type - 1>>
\* the single-word path has multiplied two digits whose product is Base
C35_WitnessOverflow ==
    /\ product.op = "single"
    /\ operands.A * operands.B = Base
    /\ product.data = <<0, 1>>

\* digit i (from 1) of d, zero above its length
DigitOrZero(d, i) == IF i <= Len(d) THEN d[i] ELSE 0
\* x is canonical: not negative when its length is 0, a non-zero top digit
\* otherwise
Canonical(x) ==
    IF length(x) = 0 THEN ~x.neg_ ELSE D(x, length(x) - 1) # 0
\* C36: for non-negative a and b of any two lengths, a | b and a ^ b have
\* the value of the digit-wise OR and XOR of the operands, the shorter one
\* extended by zero digits, a & b has the value of the digit-wise AND over
\* the shorter length, and each result is canonical and not negative; so
\* a ^ a and a & 0 are the zero of length 0 and a | 0 has the value of a.
C36_Bitwise ==
    (~reg.a.neg_ /\ ~reg.b.neg_) =>
        /\ out.op \in {"or", "xor", "and"} =>
               out.st = "ok" /\ Canonical(out.res) /\ ~out.res.neg_
        /\ out.op = "or" =>
               MagOf(out.res.data_) =
                   MagOf([i \in 1 .. Max(length(reg.a), length(reg.b)) |->
                            BitOr(DigitOrZero(reg.a.data_, i),
                                  DigitOrZero(reg.b.data_, i))])
        /\ out.op = "xor" =>
               MagOf(out.res.data_) =
                   MagOf([i \in 1 .. Max(length(reg.a), length(reg.b)) |->
                            BitXor(DigitOrZero(reg.a.data_, i),
                                   DigitOrZero(reg.b.data_, i))])
        /\ out.op = "and" =>
               MagOf(out.res.data_) =
                   MagOf([i \in 1 .. Min(length(reg.a), length(reg.b)) |->
                            BitAnd(reg.a.data_[i], reg.b.data_[i])])
        /\ (out.op = "xor" /\ reg.a = reg.b) => length(out.res) = 0
        /\ (out.op = "and" /\ length(reg.b) = 0) => length(out.res) = 0
        /\ (out.op = "or" /\ length(reg.b) = 0) =>
               ValueOf(out.res) = ValueOf(reg.a)
\* a | b was computed for a shorter, non-zero a and a longer b
C36_Witness ==
    /\ out.op = "or"
    /\ ~reg.a.neg_
    /\ ~reg.b.neg_
    /\ 0 < length(reg.a)
    /\ length(reg.a) < length(reg.b)
    /\ D(reg.b, length(reg.b) - 1) # 0
\* a ^ a was computed for a non-zero a
C36_WitnessXorSelf ==
    out.op = "xor" /\ reg.a = reg.b /\ ~reg.a.neg_ /\ ValueOf(reg.a) > 0

\* the calls of the underlying next that failed: every other call has moved
\* the cursor by one event
FailedNexts(c) == c.nexts - (c.pos - 1)
\* C37: errors stop a filter view.  When a call of the underlying next(ec)
\* made by next(ec) of a filter view has set ec, the view has made no call
\* of the underlying next after it and has returned with that code, the
\* cursor still on the event it failed to leave, whether the predicate
\* accepts that event or not; and while no call has failed no code is
\* reported.
C37_ErrorStops ==
    /\ single.ec = "error" =>
           /\ FailedNexts(single.c) = 1
           /\ single.c.pos = single.c.failAt
    /\ composed.ec = "error" =>
           /\ FailedNexts(composed.c) = 1
           /\ composed.c.pos = composed.c.failAt
    /\ FailedNexts(single.c) = 0 => single.ec = ""
    /\ FailedNexts(composed.c) = 0 => composed.ec = ""
    /\ FailedNexts(single.c) > 0 => single.ec \in {"error", "thrown"}
\* next(ec) has passed over a rejected event and failed on an event that the
\* predicate rejects as well
C37_Witness ==
    /\ single.ec = "error"
    /\ single.from > 0
    /\ single.c.pos = single.from + 1
    /\ ~pred_(preds[1] \cup preds[2], cursor_current(single.c))
    /\ composed.ec = "error"
    /\ ~pred_(preds[2], cursor_current(composed.c))

\* C38: whenever the visitor is idle its index is 0, after callbacks, pulls,
\* dumps (bulk, completed or interrupted by the sink) and resets; so a
\* multi-dim expansion starts with index 0, and the first element of the
\* shape it emits is shape[0].
C38_IdleIndexZero ==
    /\ visitor.state_ = "none" => visitor.index_ = 0
    /\ visitor.state_ = "multi_dim" => visitor.index_ = 0
    /\ (visitor.state_ = "shape" /\ visitor.index_ = 1) =>
           visitor.event_ = Ev("uint64_value", visitor.shape_[1], "none")
\* a dump called in the middle of a typed array has run to the end of the
\* array and has left the visitor idle
C38_Witness ==
    /\ dumped.v.state_ = "typed_array"
    /\ dumped.v.index_ > 0
    /\ dumped.v.index_ < Len(dumped.v.data_.elems)
    /\ Len(sink) = Len(dumped.v.data_.elems) - dumped.v.index_ + 2
    /\ visitor.state_ = "none"
    /\ visitor.index_ = 0
\* a dump called in the middle of a typed array was stopped by the sink, and
\* a reset has then left the visitor idle
C38_WitnessReset ==
    /\ dumped.v.state_ = "typed_array"
    /\ dumped.v.index_ > 0
    /\ dumped.patience = 1
    /\ visitor = Constructed(visitor.pred_)
    /\ surfaced = <<>>

\* What the calls of a document build, told structure by structure: a frame
\* for the root and one for every open structure, each with the items
\* completed in it so far, the name it was given in its parent and the name
\* that awaits its value.
Frame(kind, name, items) ==
    [kind |-> kind, name_ |-> name, items |-> items, named |-> FALSE,
     pending |-> ""]
Upper(frames) == SubSeq(frames, 1, Len(frames) - 1)
\* the item added to the frame on top
WithItem(frames, value) ==
    [frames EXCEPT ![Len(frames)] =
        [kind |-> Back(frames).kind, name_ |-> Back(frames).name_,
         items |-> Append(Back(frames).items,
                          Item(IF Back(frames).named THEN Back(frames).pending
                               ELSE "", value)),
         named |-> FALSE, pending |-> ""]]
\* a structure of the kind is opened under the name that awaits its value
WithFrame(frames, kind) ==
    Append([frames EXCEPT ![Len(frames)] =
                [@ EXCEPT !.named = FALSE, !.pending = ""]],
           Frame(kind,
                 IF Back(frames).named THEN Back(frames).pending ELSE "",
                 <<>>))
\* the structure on top is closed and becomes an item of the frame under it
Closed(frames) ==
    [Upper(frames) EXCEPT ![Len(frames) - 1].items =
        Append(@, Item(Back(frames).name_,
                       Json(Back(frames).kind, 0, "", Back(frames).items)))]
RefStep(frames, c) ==
    IF c.op = "name"
    THEN [frames EXCEPT ![Len(frames)] =
             [@ EXCEPT !.named = TRUE, !.pending = c.name]]
    ELSE IF c.op = "value" THEN WithItem(frames, c.value)
    ELSE IF c.op = "begin_array" THEN WithFrame(frames, "array")
    ELSE IF c.op = "begin_object" THEN WithFrame(frames, "object")
    ELSE Closed(frames)
RECURSIVE RefFrames(_)
RefFrames(calls) ==
    IF calls = <<>> THEN <<Frame("root", "", <<>>)>>
    ELSE RefStep(RefFrames(SubSeq(calls, 1, Len(calls) - 1)), Back(calls))
\* the items at the root of the document
RootItems == RefFrames(doc.calls)[1].items
\* the slot of an open structure: its name and its value without children
Slot(f) == Item(f.name_, Json(f.kind, 0, "", <<>>))
\* the stack the frames stand for: the completed items of every frame,
\* each open structure's slot between the items of its parent and its own,
\* and on top the name that awaits its value
RECURSIVE Flat(_, _)
Flat(frames, i) ==
    IF i > Len(frames)
    THEN IF Back(frames).named THEN <<NamedItem(Back(frames).pending)>> ELSE <<>>
    ELSE (IF i > 1 THEN <<Slot(frames[i])>> ELSE <<>>)
         \o frames[i].items \o Flat(frames, i + 1)
\* the position (from 0) of the slot of frame i on that stack
RECURSIVE SlotOffset(_, _)
SlotOffset(frames, i) ==
    IF i = 1 THEN 0 - 1
    ELSE SlotOffset(frames, i - 1) + Len(frames[i - 1].items) + 1

\* C39: the validity lifecycle of json_decoder.  is_valid() is false before
\* the first document and from do_begin_document until do_end_document;
\* after the do_end_document of a document that reported exactly one value
\* (a scalar or a balanced structure with a name before every member)
\* is_valid() is true, the value stack is empty and the result is that
\* value; after a document with no value or with more than one is_valid()
\* is false; and get_result() sets it back to false.
C39_ValidityLifecycle ==
    /\ doc.phase \in {"none", "open"} => ~is_valid(json)
    /\ (doc.phase = "closed" /\ ~doc.got) =>
           /\ is_valid(json) = (Len(RootItems) = 1)
           /\ is_valid(json) =>
                  /\ json.stack_ = <<>>
                  /\ json.result_ = RootItems[1].value_
    /\ (doc.phase = "closed" /\ doc.got) => ~is_valid(json)
\* a document that was an object holding an array has ended and is valid
C39_Witness ==
    /\ doc.phase = "closed"
    /\ ~doc.got
    /\ is_valid(json)
    /\ json.stack_ = <<>>
    /\ json.result_.kind = "object"
    /\ Len(json.result_.items) = 1
    /\ json.result_.items[1].name_ = "a"
    /\ json.result_.items[1].value_.kind = "array"
    /\ Len(json.result_.items[1].value_.items) = 1
\* a document with two values at its root has ended and is not valid
C39_WitnessTwoRoots ==
    doc.phase = "closed" /\ Len(RootItems) = 2 /\ ~is_valid(json)

\* C40: the stack discipline of json_decoder.  Inside a well-formed
\* document stack_offsets_ holds the root entry and one entry for every open
\* array or object, of its type and at the position of its slot, and the
\* value stack holds the completed items, the slots of the open structures
\* and the name that awaits its value: so after a do_end_array or a
\* do_end_object the stack has the size it had right after the matching
\* begin, and the slot holds the children in the order they were pushed,
\* each member of an object under the name pushed just before it.
C40_StackDiscipline ==
    doc.phase = "open" =>
        /\ Len(json.stack_offsets_) = Len(doc.open) + 1
        /\ json.stack_offsets_[1] = structure_offset(0, "root_t")
        /\ \A i \in 1 .. Len(doc.open) :
               /\ json.stack_offsets_[i + 1].type_ =
                      (IF doc.open[i] = "array" THEN "array_t" ELSE "object_t")
               /\ json.stack_offsets_[i + 1].offset_ =
                      SlotOffset(RefFrames(doc.calls), i + 1)
        /\ Len(RefFrames(doc.calls)) = Len(doc.open) + 1
        /\ json.stack_ = Flat(RefFrames(doc.calls), 1)
\* inside an object that is still open, an array of two values has been
\* closed: its slot holds the two values in the order they were reported
C40_Witness ==
    /\ doc.phase = "open"
    /\ doc.open = <<"object">>
    /\ Len(json.stack_) = 2
    /\ json.stack_[2].name_ = "a"
    /\ json.stack_[2].value_ =
           Json("array", 0, "",
                <<ValueItem(Json("string", 0, "s", <<>>)),
                  ValueItem(Json("uint64", 7, "", <<>>))>>)

====
